---- MODULE Spec2Model ----
(***************************************************************************)
(* Model of the subtitle-file transformation pipeline of srt_tool_app:     *)
(* the Time Codec (utils.shift_time_string, _time_str_to_timedelta,        *)
(* _timedelta_to_time_str), the Block Parser (utils.parse_srt_content),    *)
(* the two translation validators, and the Splitter, the translation loop  *)
(* and the Merger of core.py.                                              *)
(*                                                                         *)
(* A text is a sequence of one-character strings, so that strip, split,    *)
(* join, isdigit, the time-range regular expression, strptime and the      *)
(* formatting of timestamps are computed character by character.           *)
(***************************************************************************)
EXTENDS Integers, Sequences, FiniteSets, TLC

VARIABLES
    time_str,        \* argument of shift_time_string
    offset_seconds,  \* argument of shift_time_string, as the timedelta it becomes
    shifted,         \* outcome of the call: pending, returned text or raised
    content,         \* text handed to the two validators
    fmt_result,      \* outcome of _validate_translation_format
    seq_result,      \* outcome of _validate_sequential_numbering
    cues,            \* the cues the source SRT file was written from
    srt,             \* text of the source SRT file
    time_file,       \* txtWithTime/<base>.txt      ("absent" until written)
    sentence_file,   \* txtWithSentence/<base>.txt  ("absent" until written)
    split_sentence,  \* the sentence stream as the Splitter wrote it
    output_srt,      \* updatedSrt/<base>_updated.srt ("absent" until written)
    srt_output,      \* the list of blocks the Merger joined into output_srt
    pc,              \* position of the file in split / translate / merge
    attempt,         \* index into models_to_try of the next attempt
    last_stdout,     \* what the external process did in the last attempt
    original_content, \* _translate_single_file: the text read from the sentence file
    start_num,       \* argument of _execute_adv_shift
    new_srt_content, \* the blocks _execute_adv_shift built for the file
    shifted_file,    \* timeShiftedSrt/<file>
    srt_path,        \* the source file handed to _backup_failed_srt
    failed_srt,      \* failed_srt/<file>, the quarantine copy
    first_backup,    \* the bytes the source had when the copy was created
    batch,           \* one-click workflow: outcome of each file of srt_files
    batch_pos,       \* one-click workflow: index of the file being processed
    worker,          \* one-click workflow: the thread running the loop
    program,         \* one-click workflow: the program whose workflow runs
    model_name,      \* one-click workflow of srt_tool.py: its argument model_name
    calls,           \* parse_srt_content calls in progress, with their locals
    history          \* the calls of utils.py that returned earlier, with their results

vars == <<time_str, offset_seconds, shifted, content, fmt_result, seq_result,
          cues, srt, time_file, sentence_file, split_sentence, output_srt,
          srt_output, pc, attempt, last_stdout, original_content,
          start_num, new_srt_content, shifted_file, srt_path, failed_srt,
          first_backup, batch, batch_pos, worker, program, model_name, calls,
          history>>

codecVars == <<time_str, offset_seconds, shifted>>
validatorVars == <<content, fmt_result, seq_result>>
pipelineVars == <<cues, srt, time_file, sentence_file, split_sentence,
                  output_srt, srt_output, pc, attempt, last_stdout, original_content>>
shifterVars == <<start_num, new_srt_content, shifted_file>>
backupVars == <<srt_path, failed_srt, first_backup>>
batchVars == <<batch, batch_pos, worker, program, model_name>>
parserVars == <<calls, history>>
toolVars == <<start_num, new_srt_content, shifted_file, srt_path, failed_srt,
              first_backup, batch, batch_pos, worker, program, model_name, calls,
              history>>

(***************************************************************************)
(* Characters and the str methods the code uses.                           *)
(***************************************************************************)
NL == "\n"
\* Texts are over the Latin-1 characters.  [0-9]: the characters \d matches
\* and int() reads.
DecimalDigits == {"0", "1", "2", "3", "4", "5", "6", "7", "8", "9"}
\* the characters c with c.isdigit(): the decimal digits and the superscripts
\* U+00B2, U+00B3, U+00B9
Digits == DecimalDigits \cup {"²", "³", "¹"}
\* the characters c with c.isspace(), which str.strip() removes and \s
\* matches: space, \n, \t, \r, \f, U+000B, U+001C..U+001F, U+0085, U+00A0
Whitespace == {" ", "\n", "\t", "\r", "\f", "", "", "", "", "",
               "", " "}

DigitVal(c) ==
    CASE c = "0" -> 0 [] c = "1" -> 1 [] c = "2" -> 2 [] c = "3" -> 3
      [] c = "4" -> 4 [] c = "5" -> 5 [] c = "6" -> 6 [] c = "7" -> 7
      [] c = "8" -> 8 [] c = "9" -> 9

DigitChar(n) ==
    CASE n = 0 -> "0" [] n = 1 -> "1" [] n = 2 -> "2" [] n = 3 -> "3"
      [] n = 4 -> "4" [] n = 5 -> "5" [] n = 6 -> "6" [] n = 7 -> "7"
      [] n = 8 -> "8" [] n = 9 -> "9"

Chars(s) == {s[i] : i \in 1..Len(s)}

RECURSIVE FirstNonSpace(_, _)
FirstNonSpace(s, i) ==
    IF i > Len(s) THEN i
    ELSE IF s[i] \in Whitespace THEN FirstNonSpace(s, i + 1) ELSE i

RECURSIVE LastNonSpace(_, _)
LastNonSpace(s, i) ==
    IF i < 1 THEN i
    ELSE IF s[i] \in Whitespace THEN LastNonSpace(s, i - 1) ELSE i

\* str.strip()
strip(s) == SubSeq(s, FirstNonSpace(s, 1), LastNonSpace(s, Len(s)))

\* the position of the first occurrence of sep in s at or after i, 0 if none
find(s, sep, i) ==
    LET hits == {j \in i..(Len(s) - Len(sep) + 1) : SubSeq(s, j, j + Len(sep) - 1) = sep}
    IN  IF hits = {} THEN 0 ELSE CHOOSE j \in hits : \A k \in hits : j <= k

\* str.split(sep): left to right, non-overlapping, always at least one piece
RECURSIVE SplitFrom(_, _, _)
SplitFrom(s, sep, start) ==
    LET j == find(s, sep, start)
    IN  IF j = 0 THEN <<SubSeq(s, start, Len(s))>>
        ELSE <<SubSeq(s, start, j - 1)>> \o SplitFrom(s, sep, j + Len(sep))

split(s, sep) == SplitFrom(s, sep, 1)

\* sep.join(parts)
RECURSIVE join(_, _)
join(sep, parts) ==
    IF parts = <<>> THEN <<>>
    ELSE IF Len(parts) = 1 THEN parts[1]
    ELSE parts[1] \o sep \o join(sep, Tail(parts))

\* str.replace(old, new) for single characters
replace(s, old, new) == [i \in 1..Len(s) |-> IF s[i] = old THEN new ELSE s[i]]

\* f.read() of a file opened in text mode (newline=None): every \r\n and
\* every other \r of the file becomes \n. The files are written on a system
\* whose line separator is \n, so a write changes nothing.
read_text(data) ==
    LET translated == [i \in 1..Len(data) |->
                          IF data[i] = NL /\ i > 1 /\ data[i - 1] = "\r" THEN ""
                          ELSE IF data[i] = "\r" THEN NL
                          ELSE data[i]]
    IN  SelectSeq(translated, LAMBDA c : c # "")

\* a byte sequence that is not UTF-8, as one element of the content of a
\* file: read() raises UnicodeDecodeError on a file that holds it
InvalidUtf8 == "<0xFF>"

decodes(data) == \A i \in 1..Len(data) : data[i] # InvalidUtf8

\* str.isdigit()
isdigit(s) == Len(s) > 0 /\ \A i \in 1..Len(s) : s[i] \in Digits

\* \d+ or [0-9]+ matching the whole of s
AllDecimal(s) == Len(s) > 0 /\ \A i \in 1..Len(s) : s[i] \in DecimalDigits

\* the value of a string of decimal digits
RECURSIVE DecimalValue(_)
DecimalValue(s) ==
    IF Len(s) = 0 THEN 0
    ELSE 10 * DecimalValue(SubSeq(s, 1, Len(s) - 1)) + DigitVal(s[Len(s)])

\* the characters int() skips around the number: the whitespace of C
\* (space, \t, \n, \r, \f, U+000B) and the whitespace above U+007F; the
\* separators U+001C..U+001F, which str.strip() removes, are no whitespace
\* for int()
IntWhitespace == Whitespace \ {"", "", "", ""}

RECURSIVE FirstNonIntSpace(_, _)
FirstNonIntSpace(s, i) ==
    IF i > Len(s) THEN i
    ELSE IF s[i] \in IntWhitespace THEN FirstNonIntSpace(s, i + 1) ELSE i

RECURSIVE LastNonIntSpace(_, _)
LastNonIntSpace(s, i) ==
    IF i < 1 THEN i
    ELSE IF s[i] \in IntWhitespace THEN LastNonIntSpace(s, i - 1) ELSE i

\* the text int() reads the number from: s without the IntWhitespace around it
int_strip(s) == SubSeq(s, FirstNonIntSpace(s, 1), LastNonIntSpace(s, Len(s)))

\* int(s): an optional sign, then decimal digits, single underscores allowed
\* between digits; anything else is a ValueError (so is a superscript digit,
\* which isdigit() accepts)
IntDigits(s) ==
    LET t == int_strip(s)
    IN  IF t # <<>> /\ t[1] \in {"+", "-"} THEN Tail(t) ELSE t

int_raises(s) ==
    LET b == IntDigits(s)
    IN  \/ b = <<>>
        \/ \E i \in 1..Len(b) : b[i] \notin DecimalDigits \cup {"_"}
        \/ b[1] = "_" \/ b[Len(b)] = "_"
        \/ \E i \in 1..(Len(b) - 1) : b[i] = "_" /\ b[i + 1] = "_"

int(s) ==
    LET value == DecimalValue(SelectSeq(IntDigits(s), LAMBDA c : c # "_"))
    IN  IF int_strip(s)[1] = "-" THEN 0 - value ELSE value

\* str(n) for n >= 0
RECURSIVE str(_)
str(n) == IF n < 10 THEN <<DigitChar(n)>> ELSE str(n \div 10) \o <<DigitChar(n % 10)>>

\* f"{n:02d}", f"{n:03d}" and the six digits of %f
Pad2(n) == IF n < 10 THEN <<"0">> \o str(n) ELSE str(n)
Pad3(n) == IF n < 10 THEN <<"0", "0">> \o str(n)
           ELSE IF n < 100 THEN <<"0">> \o str(n) ELSE str(n)
Pad6(n) == Pad3(n \div 1000) \o Pad3(n % 1000)

(***************************************************************************)
(* datetime and timedelta.  A timedelta is Python's normalised triple      *)
(* (days, seconds, microseconds) with 0 <= seconds < 86400 and             *)
(* 0 <= microseconds < 10^6; days carries the sign.  A datetime is the     *)
(* day number relative to 1900-01-01 (the date strptime gives when the     *)
(* format has no date) with the second and microsecond of the day.         *)
(***************************************************************************)
SecondsPerDay == 86400
Million == 1000000
\* date(1900, 1, 1).toordinal(), date.min.toordinal(), date.max.toordinal()
Ordinal1900 == 693596
MinOrdinal == 1
MaxOrdinal == 3652059

\* datetime.strptime(text, "%H:%M:%S.%f"): the pattern _strptime compiles is
\* (2[0-3]|[0-1]\d|\d):([0-5]\d|\d):(6[0-1]|[0-5]\d|\d)\.([0-9]{1,6}) and the
\* whole text has to be consumed; second 60 or 61 is then refused by the
\* datetime constructor.  Every refusal is a ValueError.
strptime(text) ==
    LET hms == split(text, <<":">>)
        sf  == IF Len(hms) = 3 THEN split(hms[3], <<".">>) ELSE <<>>
        ok  == /\ Len(hms) = 3
               /\ Len(hms[1]) \in {1, 2} /\ AllDecimal(hms[1]) /\ int(hms[1]) <= 23
               /\ Len(hms[2]) \in {1, 2} /\ AllDecimal(hms[2]) /\ int(hms[2]) <= 59
               /\ Len(sf) = 2
               /\ Len(sf[1]) \in {1, 2} /\ AllDecimal(sf[1]) /\ int(sf[1]) <= 59
               /\ Len(sf[2]) \in 1..6 /\ AllDecimal(sf[2])
        frac == sf[2] \o [i \in 1..(6 - Len(sf[2])) |-> "0"]
    IN  IF ok
        THEN [ValueError |-> FALSE,
              day |-> 0,
              hour |-> int(hms[1]), minute |-> int(hms[2]), second |-> int(sf[1]),
              microsecond |-> int(frac)]
        ELSE [ValueError |-> TRUE]

\* datetime + timedelta; OverflowError when the date leaves year 1..9999
datetime_add(dt, delta) ==
    LET us  == dt.microsecond + delta.microseconds
        sec == dt.hour * 3600 + dt.minute * 60 + dt.second + delta.seconds + us \div Million
        day == dt.day + delta.days + sec \div SecondsPerDay
        sod == sec % SecondsPerDay
    IN  IF day + Ordinal1900 < MinOrdinal \/ day + Ordinal1900 > MaxOrdinal
        THEN [OverflowError |-> TRUE]
        ELSE [OverflowError |-> FALSE,
              day |-> day,
              hour |-> sod \div 3600, minute |-> (sod % 3600) \div 60, second |-> sod % 60,
              microsecond |-> us % Million]

\* dt < datetime.strptime("00:00:00.000", time_format), i.e. dt < 1900-01-01 00:00
before_zero(dt) == dt.day < 0

zero_datetime == [OverflowError |-> FALSE, day |-> 0, hour |-> 0, minute |-> 0,
                  second |-> 0, microsecond |-> 0]

\* dt.strftime("%H:%M:%S.%f")[:-3]: the date is not printed, the microseconds
\* are cut to three digits
strftime_ms(dt) ==
    LET full == Pad2(dt.hour) \o <<":">> \o Pad2(dt.minute) \o <<":">> \o Pad2(dt.second)
                \o <<".">> \o Pad6(dt.microsecond)
    IN  SubSeq(full, 1, Len(full) - 3)

(***************************************************************************)
(* utils.shift_time_string                                                 *)
(***************************************************************************)
\* faulty variant of line 58: every input is taken to use the comma
is_comma_always(s) == TRUE

is_comma(s) == "," \in Chars(s)

clamp(dt) == IF before_zero(dt) THEN zero_datetime ELSE dt

Pending == [status |-> "pending", value |-> <<>>]
NoAttempt == [kind |-> "none", text |-> <<>>]
Returned(text) == [status |-> "returned", value |-> text]
Raised(name) == [status |-> "raised", value |-> name]

shift_time_string(s, offset) ==
    LET dt_obj == strptime(replace(strip(s), ",", "."))
    IN  IF dt_obj.ValueError THEN Returned(strip(s))
        ELSE LET new_dt_obj == datetime_add(dt_obj, offset)
             IN  IF new_dt_obj.OverflowError THEN Raised("OverflowError")
                 ELSE LET new_time_str == strftime_ms(clamp(new_dt_obj))
                      IN  Returned(IF is_comma(s)
                                   THEN replace(new_time_str, ".", ",")
                                   ELSE new_time_str)

(***************************************************************************)
(* utils.parse_srt_content                                                 *)
(***************************************************************************)
\* \d{2}:\d{2}:\d{2}[,.]\d{3} matched at position i of the line
TimestampAt(line, i) ==
    /\ i >= 1 /\ i + 11 <= Len(line)
    /\ line[i] \in DecimalDigits /\ line[i + 1] \in DecimalDigits /\ line[i + 2] = ":"
    /\ line[i + 3] \in DecimalDigits /\ line[i + 4] \in DecimalDigits /\ line[i + 5] = ":"
    /\ line[i + 6] \in DecimalDigits /\ line[i + 7] \in DecimalDigits
    /\ line[i + 8] \in {",", "."}
    /\ line[i + 9] \in DecimalDigits /\ line[i + 10] \in DecimalDigits
    /\ line[i + 11] \in DecimalDigits

AllSpace(line, from, to) == \A k \in from..to : line[k] \in Whitespace

\* time_pattern.search(line): timestamp \s* --> \s* timestamp anywhere in the line
time_pattern_search(line) ==
    \E i \in 1..Len(line) :
        /\ TimestampAt(line, i)
        /\ \E j \in (i + 12)..(Len(line) - 2) :
              /\ AllSpace(line, i + 12, j - 1)
              /\ SubSeq(line, j, j + 2) = <<"-", "-", ">">>
              /\ \E k \in (j + 3)..Len(line) :
                    AllSpace(line, j + 3, k - 1) /\ TimestampAt(line, k)

\* faulty variant of lines 33-37: no break, the last line found is kept
RECURSIVE last_time_line(_, _)
last_time_line(lines, i) ==
    IF i > Len(lines) THEN 0
    ELSE LET later == last_time_line(lines, i + 1)
         IN  IF later # 0 THEN later
             ELSE IF time_pattern_search(lines[i]) THEN i ELSE 0

\* index of the first line the pattern is found in, 0 when there is none
RECURSIVE first_time_line(_, _)
first_time_line(lines, i) ==
    IF i > Len(lines) THEN 0
    ELSE IF time_pattern_search(lines[i]) THEN i
    ELSE first_time_line(lines, i + 1)

\* faulty variant of lines 42-44: the counter replaces only an absent index
number_of_chunk_keep(number_str, block_counter) ==
    IF number_str = <<>> THEN str(block_counter) ELSE number_str

\* lines 42-44: the index text, or the fallback counter
number_of_chunk(number_str, block_counter) ==
    IF number_str = <<>> \/ ~isdigit(number_str) THEN str(block_counter) ELSE number_str

\* lines 28-53: the loop over content_chunks, from chunk k with block_counter
RECURSIVE parse_chunks(_, _, _)
parse_chunks(content_chunks, k, block_counter) ==
    IF k > Len(content_chunks) THEN <<>>
    ELSE LET lines == split(strip(content_chunks[k]), <<NL>>)
             time_line_index == first_time_line(lines, 1)
         IN  IF lines[1] = <<>> \/ time_line_index = 0
             THEN parse_chunks(content_chunks, k + 1, block_counter)
             ELSE LET number_part == SubSeq(lines, 1, time_line_index - 1)
                      text_part == SubSeq(lines, time_line_index + 1, Len(lines))
                      number_str == strip(join(<<NL>>, number_part))
                  IN  <<[number |-> number_of_chunk(number_str, block_counter),
                         time |-> strip(lines[time_line_index]),
                         text |-> strip(join(<<NL>>, text_part))]>>
                      \o parse_chunks(content_chunks, k + 1, block_counter + 1)

parse_srt_content(text) == parse_chunks(split(strip(text), <<NL, NL>>), 1, 1)

(***************************************************************************)
(* utils._validate_translation_format and _validate_sequential_numbering   *)
(***************************************************************************)
Valid == [valid |-> TRUE, info |-> -1]
Invalid(n) == [valid |-> FALSE, info |-> n]

\* lines 80-83: the loop, i being the 0-based index of the code
RECURSIVE format_walk(_, _)
format_walk(lines, i) ==
    IF i > Len(lines) - 1 THEN Valid
    ELSE IF isdigit(strip(lines[i + 1])) /\ strip(lines[i]) # <<>> THEN Invalid(i)
    ELSE format_walk(lines, i + 1)

\* faulty variant of line 76: the lines of the text as given, not stripped
format_lines_raw(text) == split(text, <<NL>>)

\* line 76
format_lines(text) == split(strip(text), <<NL>>)

_validate_translation_format(text) ==
    LET lines == format_lines(text)
    IN  IF Len(lines) <= 1 THEN Valid ELSE format_walk(lines, 1)

\* faulty variant of lines 118-119: reports the index found, not the expected one
RECURSIVE sequential_walk_current(_, _, _)
sequential_walk_current(blocks, k, expected_number) ==
    IF k > Len(blocks) THEN Valid
    ELSE IF int_raises(blocks[k].number) THEN Invalid(expected_number)
    ELSE IF int(blocks[k].number) # expected_number THEN Invalid(int(blocks[k].number))
    ELSE sequential_walk_current(blocks, k + 1, expected_number + 1)

\* lines 114-123: the loop over the blocks
RECURSIVE sequential_walk(_, _, _)
sequential_walk(blocks, k, expected_number) ==
    IF k > Len(blocks) THEN Valid
    ELSE IF int_raises(blocks[k].number) THEN Invalid(expected_number)
    ELSE IF int(blocks[k].number) # expected_number THEN Invalid(expected_number)
    ELSE sequential_walk(blocks, k + 1, expected_number + 1)

_validate_sequential_numbering(text) == sequential_walk(parse_srt_content(text), 1, 1)

(***************************************************************************)
(* utils._time_str_to_timedelta and utils._timedelta_to_time_str.          *)
(* In the Merger a timedelta is kept as whole seconds (days folded in,     *)
(* negative for a negative duration) and 0 <= microseconds < 10^6.         *)
(***************************************************************************)
RECURSIVE floor_log2(_)
floor_log2(n) == IF n < 2 THEN 0 ELSE 1 + floor_log2(n \div 2)

RECURSIVE pow2(_)
pow2(n) == IF n = 0 THEN 1 ELSE 2 * pow2(n - 1)

\* 2^p modulo m
RECURSIVE pow2mod(_, _)
pow2mod(p, m) ==
    IF p = 0 THEN 1 % m
    ELSE LET h == pow2mod(p \div 2, m)
         IN  (h * h * (IF p % 2 = 1 THEN 2 ELSE 1)) % m

_time_str_to_timedelta(s) ==
    LET dt_obj == strptime(replace(strip(s), ",", "."))
    IN  IF dt_obj.ValueError THEN [seconds |-> 0, microseconds |-> 0]
        ELSE [seconds |-> dt_obj.hour * 3600 + dt_obj.minute * 60 + dt_obj.second,
              microseconds |-> dt_obj.microsecond]

\* line 104, int((seconds - int(seconds)) * 1000), in IEEE double arithmetic.
\* total_seconds() is the double nearest to whole + micro / 10^6, with
\* p = 52 - floor(log2(whole)) fraction bits left for the part below one
\* second; the two divmod and the subtraction are exact, so the fraction is
\* round(micro * 2^p / 10^6) / 2^p.  For micro = 1000 * m the rounding goes
\* down exactly when r = (m * 2^p) mod 1000 lies in 1..499, the product with
\* 1000 is then m - r / 2^p, and int() gives m - 1 unless that product rounds
\* back to m (r / 2^p at most half the spacing of doubles below m).  With a
\* microsecond part that is not a multiple of 1000, and for whole = 0, the
\* result is micro // 1000.
float_millis(whole, micro) ==
    LET m == micro \div 1000
    IN  IF micro % 1000 # 0 \/ m = 0 \/ whole = 0 THEN m
        ELSE LET e == floor_log2(whole)
                 r == (m * pow2mod(52 - e, 1000)) % 1000
                 l == floor_log2(m)
                 k == 1 + e - l + (IF m = pow2(l) THEN 1 ELSE 0)
                 back == IF k >= 0 THEN r * pow2(k) <= 1 ELSE r <= pow2(0 - k)
             IN  IF r = 0 \/ r > 500 \/ back THEN m ELSE m - 1

_timedelta_to_time_str(td_obj) ==
    LET hours == td_obj.seconds \div 3600
        minutes == (td_obj.seconds % 3600) \div 60
        seconds == td_obj.seconds % 60
        milliseconds == float_millis(td_obj.seconds, td_obj.microseconds)
    IN  Pad2(hours) \o <<":">> \o Pad2(minutes) \o <<":">> \o Pad2(seconds)
        \o <<",">> \o Pad3(milliseconds)

td_add(a, b) ==
    LET us == a.microseconds + b.microseconds
    IN  [seconds |-> a.seconds + b.seconds + us \div Million, microseconds |-> us % Million]

td_sub(a, b) ==
    LET us == a.microseconds - b.microseconds
    IN  [seconds |-> a.seconds - b.seconds + us \div Million, microseconds |-> us % Million]

\* direction of the double nearest to a / b for 0 < a < b: -1 when it lies
\* below a / b, 1 when above, 0 when a / b is a double
RECURSIVE leading_shift(_, _, _)
leading_shift(a, b, t) == IF a * pow2(t) >= b THEN t ELSE leading_shift(a, b, t + 1)

float_ratio_error(a, b) ==
    LET t == leading_shift(a, b, 1)
        rr == (a * pow2mod(52 + t, b)) % b
    IN  IF rr = 0 THEN 0 ELSE IF 2 * rr < b THEN -1 ELSE 1

\* lines 160-161: proportion = line_len / total_len as a double, and
\* timedelta * float, which multiplies the microseconds by the exact value of
\* the double and rounds half to even
td_mul_proportion(td, line_len, total_len) ==
    LET s_prod == td.seconds * line_len
        q1 == s_prod \div total_len
        r1 == s_prod % total_len
        rest == r1 * Million + td.microseconds * line_len
        q2 == rest \div total_len
        r2 == rest % total_len
        err == float_ratio_error(line_len, total_len)
        positive == td.seconds >= 0
        up == IF 2 * r2 > total_len THEN TRUE
              ELSE IF 2 * r2 < total_len THEN FALSE
              ELSE IF err = 0 THEN q2 % 2 = 1
              ELSE IF positive THEN err = 1 ELSE err = -1
        us == q2 + (IF up THEN 1 ELSE 0)
    IN  [seconds |-> q1 + us \div Million, microseconds |-> us % Million]

(***************************************************************************)
(* core._split_single_srt                                                  *)
(***************************************************************************)
RECURSIVE concat(_)
concat(parts) == IF parts = <<>> THEN <<>> ELSE Head(parts) \o concat(Tail(parts))

\* faulty variant of line 23: a block without text gets no time chunk
has_text(b) == b.text # <<>>

time_stream_skip_empty(blocks) ==
    LET with_text == SelectSeq(blocks, has_text)
    IN  concat([i \in 1..Len(with_text) |->
                  with_text[i].number \o <<NL>> \o with_text[i].time \o <<NL, NL>>])

\* line 23
time_stream(blocks) ==
    concat([i \in 1..Len(blocks) |-> blocks[i].number \o <<NL>> \o blocks[i].time \o <<NL, NL>>])

\* faulty variant of line 24: no blank line after a block
sentence_stream_single_newline(blocks) ==
    concat([i \in 1..Len(blocks) |-> blocks[i].number \o <<NL>> \o blocks[i].text \o <<NL>>])

\* line 24
sentence_stream(blocks) ==
    concat([i \in 1..Len(blocks) |-> blocks[i].number \o <<NL>> \o blocks[i].text \o <<NL, NL>>])

(***************************************************************************)
(* core._merge_single_srt                                                  *)
(***************************************************************************)
RECURSIVE non_blank(_)
non_blank(lines) ==
    IF lines = <<>> THEN <<>>
    ELSE IF strip(Head(lines)) # <<>> THEN <<Head(lines)>> \o non_blank(Tail(lines))
    ELSE non_blank(Tail(lines))

\* faulty variants of line 139: the echoed index is never removed; any numeric
\* first line is removed
text_lines_keep_all(s_lines, original_number) == non_blank(s_lines)

text_lines_drop_any_number(s_lines, original_number) ==
    non_blank(IF isdigit(s_lines[1]) THEN Tail(s_lines) ELSE s_lines)

\* line 139
text_lines_of(s_lines, original_number) ==
    non_blank(IF isdigit(s_lines[1]) /\ s_lines[1] = original_number
              THEN Tail(s_lines) ELSE s_lines)

\* a block as the Merger appends it: f"{number}\n{time}\n{text}\n"; pair is
\* the position of the chunks it was made from
Emitted(number, time, text, pair) ==
    [number |-> number, time |-> time, text |-> text, pair |-> pair]

block_text(b) == str(b.number) \o <<NL>> \o b.time \o <<NL>> \o b.text \o <<NL>>

\* lines 164-165
last_end(is_last, line_end_td, end_td) == IF is_last THEN end_td ELSE line_end_td

\* lines 158-172: the loop over text_lines, from line i
RECURSIVE split_lines(_, _, _, _, _, _, _, _)
split_lines(text_lines, i, total_len, total_duration_td, end_td, current_start_td, new_block_counter, pair) ==
    IF i > Len(text_lines) THEN <<>>
    ELSE LET line == text_lines[i]
             line_duration_td == td_mul_proportion(total_duration_td, Len(line), total_len)
             line_end_td == last_end(i = Len(text_lines),
                                     td_add(current_start_td, line_duration_td), end_td)
             new_start_str == _timedelta_to_time_str(current_start_td)
             new_end_str == _timedelta_to_time_str(line_end_td)
         IN  <<Emitted(new_block_counter,
                       new_start_str \o <<" ", "-", "-", ">", " ">> \o new_end_str,
                       line, pair)>>
             \o split_lines(text_lines, i + 1, total_len, total_duration_td, end_td,
                            line_end_td, new_block_counter + 1, pair)

RECURSIVE sum_len(_)
sum_len(lines) == IF lines = <<>> THEN 0 ELSE Len(Head(lines)) + sum_len(Tail(lines))

\* faulty variant of line 175: the fallback block keeps the original index
fallback_number_original(new_block_counter, original_number) ==
    IF isdigit(original_number) THEN int(original_number) ELSE 0

\* line 175: the index of the single block of the fallback
fallback_number(new_block_counter, original_number) == new_block_counter

\* lines 144-176: the blocks appended for one pair with text lines
emit_pair(original_number, time_line, text_lines, new_block_counter, pair) ==
    IF Len(text_lines) = 1
    THEN <<Emitted(new_block_counter, time_line, text_lines[1], pair)>>
    ELSE LET times == split(time_line, <<" ", "-", "-", ">", " ">>)
         IN  IF Len(times) # 2
             THEN <<Emitted(fallback_number(new_block_counter, original_number),
                            time_line, join(<<NL>>, text_lines), pair)>>
             ELSE LET start_td == _time_str_to_timedelta(times[1])
                      end_td == _time_str_to_timedelta(times[2])
                  IN  split_lines(text_lines, 1, sum_len(text_lines),
                                  td_sub(end_td, start_td), end_td, start_td,
                                  new_block_counter, pair)

\* lines 128-142: the pair at position pair, or nothing when it is skipped
merge_pair(t_chunk, s_chunk, new_block_counter, pair) ==
    IF t_chunk = <<>> \/ s_chunk = <<>> THEN <<>>
    ELSE LET t_lines == split(strip(t_chunk), <<NL>>)
             s_lines == split(strip(s_chunk), <<NL>>)
         IN  IF Len(t_lines) < 2 THEN <<>>
             ELSE LET text_lines == text_lines_of(s_lines, t_lines[1])
                  IN  IF text_lines = <<>> THEN <<>>
                      ELSE emit_pair(t_lines[1], t_lines[2], text_lines,
                                     new_block_counter, pair)

\* faulty variant of line 127: a sentence chunk is paired with the time chunk
\* that carries its index, and with the one at its position when none does
RECURSIVE merge_pairs_by_index(_, _, _, _)
merge_pairs_by_index(time_chunks, sentence_chunks, k, new_block_counter) ==
    IF k > Len(time_chunks) \/ k > Len(sentence_chunks) THEN <<>>
    ELSE LET first == split(strip(sentence_chunks[k]), <<NL>>)[1]
             same == {i \in 1..Len(time_chunks) :
                         split(strip(time_chunks[i]), <<NL>>)[1] = first}
             t == IF same = {} THEN k ELSE CHOOSE i \in same : \A j \in same : i <= j
             emitted == merge_pair(time_chunks[t], sentence_chunks[k], new_block_counter, k)
         IN  emitted \o merge_pairs_by_index(time_chunks, sentence_chunks, k + 1,
                                             new_block_counter + Len(emitted))

\* line 127: the loop over zip(time_chunks, sentence_chunks)
RECURSIVE merge_pairs(_, _, _, _)
merge_pairs(time_chunks, sentence_chunks, k, new_block_counter) ==
    IF k > Len(time_chunks) \/ k > Len(sentence_chunks) THEN <<>>
    ELSE LET emitted == merge_pair(time_chunks[k], sentence_chunks[k], new_block_counter, k)
         IN  emitted \o merge_pairs(time_chunks, sentence_chunks, k + 1,
                                    new_block_counter + Len(emitted))

\* lines 120 and 122
stream_chunks(text) == split(strip(text), <<NL, NL>>)

merge(time_text, sentence_text) ==
    merge_pairs(stream_chunks(time_text), stream_chunks(sentence_text), 1, 1)

\* line 179
output_text(blocks) == join(<<NL>>, [i \in 1..Len(blocks) |-> block_text(blocks[i])])

(***************************************************************************)
(* core._translate_single_file                                             *)
(***************************************************************************)
models_to_try == <<"gemini-1.5-flash", "gemini-1.5-pro">>

\* "Loaded cached credentials."
Banner == <<"L", "o", "a", "d", "e", "d", " ", "c", "a", "c", "h", "e", "d", " ",
            "c", "r", "e", "d", "e", "n", "t", "i", "a", "l", "s", ".">>

\* sub in s
contains(s, sub) ==
    \E i \in 1..(Len(s) - Len(sub) + 1) : SubSeq(s, i, i + Len(sub) - 1) = sub

RECURSIVE without_banner(_)
without_banner(lines) ==
    IF lines = <<>> THEN <<>>
    ELSE IF contains(Head(lines), Banner) THEN without_banner(Tail(lines))
    ELSE <<Head(lines)>> \o without_banner(Tail(lines))

\* lines 67-69
translated_content_of(stdout) == join(<<NL>>, without_banner(split(strip(stdout), <<NL>>)))

\* faulty variant of lines 71-74: the numbering check is left out
accepted_format_only(translated_content) ==
    _validate_translation_format(translated_content).valid

\* lines 71-74: the text is accepted when both checks pass
accepted(translated_content) ==
    /\ _validate_translation_format(translated_content).valid
    /\ _validate_sequential_numbering(translated_content).valid

(***************************************************************************)
(* Inputs of the Time Codec: timestamps written field by field, and        *)
(* offsets as the timedelta that timedelta(seconds=offset_seconds) builds. *)
(***************************************************************************)
MaxHour == 25

MakeTimestamp(h, m, sec, ms, sep) ==
    Pad2(h) \o <<":">> \o Pad2(m) \o <<":">> \o Pad2(sec) \o <<sep>> \o Pad3(ms)

TimeStrs ==
    {MakeTimestamp(h, m, sec, ms, sep) :
        h \in {0, 1, 23, 24, MaxHour}, m \in {0, 59}, sec \in {0, 1, 59},
        ms \in {0, 1, 999}, sep \in {",", "."}}

\* timedelta(seconds=sec + us / 10^6), sec any integer, 0 <= us < 10^6
timedelta(sec, us) ==
    [days |-> sec \div SecondsPerDay, seconds |-> sec % SecondsPerDay, microseconds |-> us]

\* timedelta(days=d)
timedelta_days(d) == [days |-> d, seconds |-> 0, microseconds |-> 0]

Offsets ==
    {timedelta(0, 0), timedelta(0, 500), timedelta(0, 1000), timedelta(1, 0),
     timedelta(3600, 0), timedelta(86400, 0),
     timedelta(-1, 999000), timedelta(-1, 0), timedelta(-3600, 0),
     timedelta(-90000, 0), timedelta(-100000, 0),
     timedelta_days(-693595), timedelta_days(-693596), timedelta_days(2958464)}

(***************************************************************************)
(* Specification of the Time Codec: one call of shift_time_string.         *)
(***************************************************************************)
IdleValidator ==
    /\ content = <<>>
    /\ fmt_result = Pending
    /\ seq_result = Pending

IdlePipeline ==
    /\ cues = <<>>
    /\ srt = <<>>
    /\ time_file = "absent"
    /\ sentence_file = "absent"
    /\ split_sentence = "absent"
    /\ output_srt = "absent"
    /\ srt_output = <<>>
    /\ pc = "idle"
    /\ attempt = 0
    /\ last_stdout = NoAttempt
    /\ original_content = <<>>

IdleCodec ==
    /\ time_str = <<>>
    /\ offset_seconds = timedelta(0, 0)
    /\ shifted = Pending

\* a file that does not exist, and a file with its content
NoFile == [exists |-> FALSE, bytes |-> <<>>]
File(bytes) == [exists |-> TRUE, bytes |-> bytes]

IdleShifter ==
    /\ start_num = 0
    /\ new_srt_content = <<>>
    /\ shifted_file = NoFile

IdleBackup ==
    /\ srt_path = NoFile
    /\ failed_srt = NoFile
    /\ first_backup = NoFile

IdleBatch ==
    /\ batch = <<>>
    /\ batch_pos = 0
    /\ worker = "idle"
    /\ program = "none"
    /\ model_name = "none"

NoHistory == [parser |-> <<>>, other |-> <<>>]

IdleParser == calls = <<>> /\ history = NoHistory

IdleTools == IdleShifter /\ IdleBackup /\ IdleBatch /\ IdleParser

\* texts that are not HH:MM:SS, a separator and three digits: short and long
\* fractions, a one-digit hour, one-digit minute and second, text after the
\* timestamp, blanks around it, a form feed and a no-break space around it,
\* a superscript digit, another separator, no timestamp at all
DeviantTimeStrs ==
    { <<"0", "0", ":", "0", "0", ":", "0", "1", ",", "5">>,
      <<"0", "0", ":", "0", "0", ":", "0", "1", ".", "5", "0">>,
      <<"0", "0", ":", "0", "0", ":", "0", "1", ",", "0", "0", "0", "9">>,
      <<"1", ":", "0", "0", ":", "0", "0", ",", "0", "0", "0">>,
      <<"0", "0", ":", "1", ":", "2", ".", "0", "0", "0">>,
      <<"0", "0", ":", "0", "0", ":", "0", "1", ",", "0", "0", "0", " ", "x">>,
      <<" ", "0", "0", ":", "0", "0", ":", "0", "1", ",", "0", "0", "0", " ">>,
      <<"\f", "0", "0", ":", "0", "0", ":", "0", "1", ",", "0", "0", "0", " ">>,
      <<"0", "²", ":", "0", "0", ":", "0", "1", ",", "0", "0", "0">>,
      <<"0", "0", ":", "0", "0", ":", "0", "1", ";", "0", "0", "0">>,
      <<"a", "b", "c">> }

InitCodec ==
    /\ time_str \in TimeStrs \cup DeviantTimeStrs
    /\ offset_seconds \in Offsets
    /\ shifted = Pending
    /\ IdleValidator
    /\ IdlePipeline
    /\ IdleTools

ShiftTimeString ==
    /\ shifted.status = "pending"
    /\ time_str # <<>>
    /\ shifted' = shift_time_string(time_str, offset_seconds)
    /\ UNCHANGED <<time_str, offset_seconds>>
    /\ UNCHANGED validatorVars
    /\ UNCHANGED pipelineVars
    /\ UNCHANGED toolVars

NextCodec == ShiftTimeString

SpecCodec == InitCodec /\ [][NextCodec]_vars

(***************************************************************************)
(* Properties of the Time Codec.                                           *)
(***************************************************************************)
\* HH:MM:SS followed by ',' or '.' and three digits, hours of two or more digits
WellFormedTimestamp(s) ==
    LET hms == split(s, <<":">>)
    IN  /\ Len(hms) = 3
        /\ Len(hms[1]) >= 2 /\ AllDecimal(hms[1])
        /\ Len(hms[2]) = 2 /\ AllDecimal(hms[2]) /\ int(hms[2]) <= 59
        /\ Len(hms[3]) = 6
        /\ AllDecimal(SubSeq(hms[3], 1, 2)) /\ int(SubSeq(hms[3], 1, 2)) <= 59
        /\ hms[3][3] \in {",", "."}
        /\ AllDecimal(SubSeq(hms[3], 4, 6))

SeparatorOf(s) == s[Len(s) - 3]

\* the instant a well-formed timestamp denotes, as whole seconds and milliseconds
InstantSeconds(s) ==
    LET hms == split(s, <<":">>)
    IN  int(hms[1]) * 3600 + int(hms[2]) * 60 + int(SubSeq(hms[3], 1, 2))

InstantMillis(s) == int(SubSeq(s, Len(s) - 2, Len(s)))

\* whether instant + offset lies before zero
SumBeforeZero(s, offset) ==
    LET us  == InstantMillis(s) * 1000 + offset.microseconds
        sec == InstantSeconds(s) + offset.seconds + us \div Million
    IN  offset.days + sec \div SecondsPerDay < 0

ZeroTimestamp(sep) == MakeTimestamp(0, 0, 0, 0, sep)

\* C9: for every well-formed timestamp and every negative offset, however
\* large, shift_time_string returns a well-formed timestamp, and it returns the
\* zero timestamp whenever timestamp + offset is below zero; it never raises.
C9_ShiftClampClaim ==
    (/\ shifted.status # "pending"
     /\ WellFormedTimestamp(time_str)
     /\ offset_seconds.days < 0)
    => /\ shifted.status = "returned"
       /\ WellFormedTimestamp(shifted.value)
       /\ SumBeforeZero(time_str, offset_seconds)
             => shifted.value = ZeroTimestamp(SeparatorOf(time_str))

\* C10: whenever shift_time_string returns for a well-formed timestamp, the
\* text it returns has the millisecond separator of its input, comma for comma
\* and dot for dot, also when the result was clamped to zero.
C10_SeparatorPreserved ==
    (/\ shifted.status = "returned"
     /\ WellFormedTimestamp(time_str))
    => /\ WellFormedTimestamp(shifted.value)
       /\ SeparatorOf(shifted.value) = SeparatorOf(time_str)
       /\ ("," \in Chars(shifted.value)) = ("," \in Chars(time_str))
       /\ ("." \in Chars(shifted.value)) = ("." \in Chars(time_str))

\* a dot-separated timestamp was shifted below zero and came back as 00:00:00.000
C10_Witness ==
    /\ shifted.status = "returned"
    /\ WellFormedTimestamp(time_str)
    /\ SeparatorOf(time_str) = "."
    /\ SumBeforeZero(time_str, offset_seconds)
    /\ shifted.value = ZeroTimestamp(".")

(***************************************************************************)
(* Inputs of the validators: texts written line by line, and SRT texts     *)
(* written cue by cue.                                                     *)
(***************************************************************************)
MaxFormatLines == 5
MaxSeqBlocks == 3

RECURSIVE SeqsUpTo(_, _)
SeqsUpTo(S, n) ==
    IF n = 0 THEN {<<>>}
    ELSE LET shorter == SeqsUpTo(S, n - 1)
         IN  shorter \cup {Append(q, x) : q \in {r \in shorter : Len(r) = n - 1}, x \in S}

FormatLineVocabulary ==
    {<<>>, <<" ">>, <<"1">>, <<"2">>, <<" ", "2">>, <<"h", "i">>, <<"\f", "²", " ">>}

FormatTexts == {join(<<NL>>, ls) : ls \in SeqsUpTo(FormatLineVocabulary, MaxFormatLines)}

TimeLine(h1, s1, ms1, h2, s2, ms2, sep, arrow) ==
    MakeTimestamp(h1, 0, s1, ms1, sep) \o arrow \o MakeTimestamp(h2, 0, s2, ms2, sep)

SpacedArrow == <<" ", "-", "-", ">", " ">>
BareArrow == <<"-", "-", ">">>

\* one cue as it stands in an SRT file: index line, time line, text
RenderCue(c) ==
    (IF c.index = <<>> THEN <<>> ELSE c.index \o <<NL>>)
    \o c.time
    \o (IF c.text = <<>> THEN <<>> ELSE <<NL>> \o c.text)

RenderSrt(cs) ==
    join(<<NL, NL>>, [i \in 1..Len(cs) |-> RenderCue(cs[i])]) \o <<NL>>

\* the line ends a file may have been written with: \n, \r\n (the usual SRT
\* of Windows tools) and \r
LineEnds == {<<NL>>, <<"\r", NL>>, <<"\r">>}

\* the text with every \n written as line_end (of one or two characters)
with_line_ends(text, line_end) ==
    LET written == [k \in 1..(2 * Len(text)) |->
                       LET c == text[(k + 1) \div 2]
                       IN  IF k % 2 = 1 THEN (IF c = NL THEN line_end[1] ELSE c)
                           ELSE IF c = NL /\ Len(line_end) = 2 THEN line_end[2]
                           ELSE ""]
    IN  SelectSeq(written, LAMBDA c : c # "")

\* the source files written from the cues cs: the SRT text with \n line
\* ends; for at most two cues also the text with the other line ends, and
\* for at most one cue the text followed by bytes that are not UTF-8
SourceFiles(cs) ==
    UNION {{text}
             \cup (IF Len(cs) <= 2
                   THEN {with_line_ends(text, line_end) : line_end \in LineEnds}
                   ELSE {})
             \cup (IF Len(cs) <= 1 THEN {text \o <<InvalidUtf8>>} ELSE {}) :
           text \in {RenderSrt(cs)}}

SeqIndexLines == {<<>>, <<"1">>, <<"2">>, <<"3">>, <<"4">>, <<"x">>, <<"²">>}

SeqCues ==
    {[index |-> ix, time |-> TimeLine(0, 1, 0, 0, 2, 0, ",", SpacedArrow), text |-> <<"h", "i">>] :
        ix \in SeqIndexLines}

SeqTexts == {RenderSrt(cs) : cs \in SeqsUpTo(SeqCues, MaxSeqBlocks)}

(***************************************************************************)
(* Specification of the validators: each is called once on the text.       *)
(***************************************************************************)
InitValidate ==
    /\ content \in FormatTexts \cup SeqTexts
    /\ fmt_result = Pending
    /\ seq_result = Pending
    /\ IdleCodec
    /\ IdlePipeline
    /\ IdleTools

ValidateFormat ==
    /\ pc = "idle"
    /\ fmt_result.status = "pending"
    /\ fmt_result' = Returned(_validate_translation_format(content))
    /\ UNCHANGED <<content, seq_result>>
    /\ UNCHANGED codecVars
    /\ UNCHANGED pipelineVars
    /\ UNCHANGED toolVars

ValidateSequential ==
    /\ pc = "idle"
    /\ seq_result.status = "pending"
    /\ seq_result' = Returned(_validate_sequential_numbering(content))
    /\ UNCHANGED <<content, fmt_result>>
    /\ UNCHANGED codecVars
    /\ UNCHANGED pipelineVars
    /\ UNCHANGED toolVars

NextValidate == ValidateFormat \/ ValidateSequential

SpecValidate == InitValidate /\ [][NextValidate]_vars

(***************************************************************************)
(* Properties of the validators.                                           *)
(***************************************************************************)
Minimum(S) == CHOOSE x \in S : \A y \in S : x <= y

\* the indices of the parsed blocks as integers, -1 for an index that is
\* all digit characters but no integer (a superscript digit)
BlockIndices(text) ==
    LET blocks == parse_srt_content(text)
    IN  [i \in 1..Len(blocks) |->
            IF int_raises(blocks[i].number) THEN -1 ELSE int(blocks[i].number)]

\* C3: _validate_sequential_numbering returns Valid exactly when the indices of
\* the parsed blocks, in order, are 1, 2, ..., N; otherwise it returns Invalid
\* with the index expected at the first block whose index is out of sequence.
C3_SequentialCheck ==
    seq_result.status = "returned"
    => LET idx == BlockIndices(content)
           bad == {i \in 1..Len(idx) : idx[i] # i}
       IN  seq_result.value = (IF bad = {} THEN Valid ELSE Invalid(Minimum(bad)))

\* blocks 1, 2, 4 were rejected with expected index 3
C3_Witness ==
    /\ seq_result.status = "returned"
    /\ BlockIndices(content) = <<1, 2, 4>>
    /\ seq_result.value = Invalid(3)

\* the verdict the format check is specified to give on a list of lines:
\* Invalid at the smallest 0-based i >= 1 whose line is numeric while line
\* i - 1 is not blank, Valid when there is no such line
FormatVerdict(lines) ==
    LET bad == {i \in 1..(Len(lines) - 1) :
                   isdigit(strip(lines[i + 1])) /\ strip(lines[i]) # <<>>}
    IN  IF bad = {} THEN Valid ELSE Invalid(Minimum(bad))

\* C4 as stated: the verdict of _validate_translation_format is the one
\* specified for the lines of the text it was given.
C4_FormatCheckOnTextLines ==
    fmt_result.status = "returned"
    => fmt_result.value = FormatVerdict(split(content, <<NL>>))

\* C4 amended: the verdict of _validate_translation_format is the one
\* specified for the lines of the text once its leading and trailing
\* whitespace is stripped, so the line index counts from the first non-blank line.
C4_FormatCheckOnStrippedLines ==
    fmt_result.status = "returned"
    => fmt_result.value = FormatVerdict(split(strip(content), <<NL>>))

\* a text that starts with a blank line was rejected at an index counted
\* from its first non-blank line
C4_Witness ==
    /\ fmt_result.status = "returned"
    /\ content # <<>> /\ content[1] = NL
    /\ ~fmt_result.value.valid
    /\ fmt_result.value # FormatVerdict(split(content, <<NL>>))

(***************************************************************************)
(* Inputs of the pipeline: SRT files written cue by cue.                   *)
(***************************************************************************)
MaxCues == 3

\* how the index lines of a file are written: 1, 2, 3, ..., or 2, 3, 4, ...,
\* or not at all
IndexLine(scheme, i) ==
    IF scheme = "sequential" THEN str(i)
    ELSE IF scheme = "shifted" THEN str(i + 1)
    ELSE <<>>

CuesOf(scheme, bodies) ==
    [i \in 1..Len(bodies) |->
        [index |-> IndexLine(scheme, i), time |-> bodies[i].time, text |-> bodies[i].text]]

CueTimeLines ==
    {TimeLine(0, 0, 0, 0, 10, 0, ",", SpacedArrow),
     TimeLine(0, 1, 1, 0, 2, 501, ".", SpacedArrow)}

CueTexts ==
    {<<>>,
     <<" ", "x">>,
     <<"2">>,
     <<"a", "b", "c", NL, "d", "e", "f", "g", "h", "i", "j">>}

PipelineBodies == {[time |-> tm, text |-> tx] : tm \in CueTimeLines, tx \in CueTexts}

PipelineCues ==
    {CuesOf(scheme, bodies) :
        scheme \in {"sequential", "shifted", "absent"},
        bodies \in SeqsUpTo(PipelineBodies, MaxCues)}

(***************************************************************************)
(* Specification of the pipeline of one file: split, then merge.           *)
(***************************************************************************)
InitPipeline ==
    /\ cues \in PipelineCues
    /\ srt \in SourceFiles(cues)
    /\ time_file = "absent"
    /\ sentence_file = "absent"
    /\ split_sentence = "absent"
    /\ output_srt = "absent"
    /\ srt_output = <<>>
    /\ pc = "source"
    /\ attempt = 0
    /\ last_stdout = NoAttempt
    /\ original_content = <<>>
    /\ IdleCodec
    /\ IdleValidator
    /\ IdleTools

\* core._split_single_srt: the source is read and parsed and the two streams
\* are written (lines 10-25), or the read raises and the call returns
\* (False, None) with no file written (lines 26-28)
SplitSingleSrt ==
    /\ pc = "source"
    /\ IF decodes(srt)
       THEN /\ \E source_text \in {read_text(srt)} :
                  LET blocks == parse_srt_content(source_text)
                  IN  /\ time_file' = time_stream(blocks)
                      /\ sentence_file' = sentence_stream(blocks)
                      /\ split_sentence' = sentence_stream(blocks)
            /\ pc' = "split"
       ELSE /\ pc' = "split_failed"
            /\ UNCHANGED <<time_file, sentence_file, split_sentence>>
    /\ UNCHANGED <<cues, srt, output_srt, srt_output, attempt, last_stdout, original_content>>
    /\ UNCHANGED codecVars
    /\ UNCHANGED validatorVars
    /\ UNCHANGED toolVars

\* core._merge_single_srt: the two streams are read (lines 119-122), merged
\* and the output is written (lines 124-180), or a read raises and the call
\* returns False with no output written (lines 181-183)
MergeSingleSrt ==
    /\ pc \in {"split", "translated"}
    /\ IF decodes(time_file) /\ decodes(sentence_file)
       THEN /\ \E time_text \in {read_text(time_file)} :
                  \E sentence_text \in {read_text(sentence_file)} :
                     srt_output' = merge(time_text, sentence_text)
            /\ output_srt' = output_text(srt_output')
            /\ pc' = "merged"
       ELSE /\ pc' = "merge_failed"
            /\ UNCHANGED <<srt_output, output_srt>>
    /\ UNCHANGED <<cues, srt, time_file, sentence_file, split_sentence, attempt, last_stdout, original_content>>
    /\ UNCHANGED codecVars
    /\ UNCHANGED validatorVars
    /\ UNCHANGED toolVars

NextPipeline == SplitSingleSrt \/ MergeSingleSrt

SpecPipeline == InitPipeline /\ [][NextPipeline]_vars

(***************************************************************************)
(* Specification of the translation of one file: split, the attempts of    *)
(* _translate_single_file with what the external process may answer, then  *)
(* merge.                                                                  *)
(***************************************************************************)
MaxTranslateCues == 2

TranslateBodies ==
    LET spaced == TimeLine(0, 0, 0, 0, 10, 0, ",", SpacedArrow)
        bare == TimeLine(0, 1, 0, 0, 2, 0, ",", BareArrow)
        trailing == TimeLine(0, 1, 0, 0, 2, 0, ",", SpacedArrow) \o <<" ", "x">>
        one_line == <<"a", "b", "c">>
        two_lines == <<"a", "b", "c", NL, "d", "e", "f", "g", "h", "i", "j">>
    IN  {[time |-> spaced, text |-> <<>>],
         [time |-> spaced, text |-> one_line],
         [time |-> spaced, text |-> two_lines],
         [time |-> bare, text |-> one_line],
         [time |-> bare, text |-> two_lines],
         [time |-> trailing, text |-> two_lines]}

TranslateCues ==
    {CuesOf(scheme, bodies) :
        scheme \in {"shifted", "absent"},
        bodies \in SeqsUpTo(TranslateBodies, MaxTranslateCues)}

RemoveAt(q, k) == SubSeq(q, 1, k - 1) \o SubSeq(q, k + 1, Len(q))
RepeatAt(q, k) == SubSeq(q, 1, k) \o SubSeq(q, k, Len(q))

\* what the external process may print for a sentence stream: the stream
\* itself, the stream behind the credentials banner, the stream behind the
\* banner and an empty line, the stream with one cue
\* dropped or repeated, the stream without its blank lines, the stream with a
\* second text line in its first cue, and an answer that carries time lines
ExternalStdouts(prompt_content) ==
    LET chunks == stream_chunks(prompt_content)
        n == Len(chunks)
    IN  {prompt_content,
         Banner \o <<NL>> \o prompt_content,
         Banner \o <<NL, NL>> \o prompt_content,
         join(<<NL>>, chunks),
         chunks[1] \o <<NL, "z", "z">> \o (IF n > 1 THEN <<NL, NL>> ELSE <<>>)
             \o join(<<NL, NL>>, Tail(chunks)),
         <<"2", NL>> \o TimeLine(0, 0, 0, 0, 1, 0, ",", SpacedArrow) \o <<NL, "h", "i", NL>>}
        \cup {join(<<NL, NL>>, RemoveAt(chunks, k)) \o <<NL>> : k \in 1..n}
        \cup {join(<<NL, NL>>, RepeatAt(chunks, k)) \o <<NL>> : k \in 1..n}

InitTranslate ==
    /\ cues \in TranslateCues
    /\ srt \in SourceFiles(cues)
    /\ time_file = "absent"
    /\ sentence_file = "absent"
    /\ split_sentence = "absent"
    /\ output_srt = "absent"
    /\ srt_output = <<>>
    /\ pc = "source"
    /\ attempt = 0
    /\ last_stdout = NoAttempt
    /\ original_content = <<>>
    /\ IdleCodec
    /\ IdleValidator
    /\ IdleTools

\* lines 35-40: an empty sentence file is skipped and reported as success
TranslateEmpty ==
    /\ pc = "split"
    /\ decodes(sentence_file)
    /\ strip(read_text(sentence_file)) = <<>>
    /\ original_content' = read_text(sentence_file)
    /\ pc' = "translated"
    /\ UNCHANGED <<cues, srt, time_file, sentence_file, split_sentence, output_srt,
                   srt_output, attempt, last_stdout>>
    /\ UNCHANGED codecVars
    /\ UNCHANGED validatorVars
    /\ UNCHANGED toolVars

\* lines 35-43: the read of the sentence file raises; the call returns False
\* before the loop, no process is started and nothing is written
TranslateUnreadable ==
    /\ pc = "split"
    /\ ~decodes(sentence_file)
    /\ pc' = "failed"
    /\ UNCHANGED <<cues, srt, time_file, sentence_file, split_sentence, output_srt,
                   srt_output, attempt, last_stdout, original_content>>
    /\ UNCHANGED codecVars
    /\ UNCHANGED validatorVars
    /\ UNCHANGED toolVars

\* lines 48, 63-65, 78-81, 82-94 and 99-101: the pass of the loop is over
\* without success, the loop goes on with the next model or ends (lines 103-104)
NextAttempt ==
    /\ attempt' = attempt + 1
    /\ pc' = IF attempt + 1 = Len(models_to_try) THEN "failed" ELSE "translating"

\* lines 35-38 when the call begins, then lines 48-60 of a pass of the loop:
\* the sentence file is read once, before the loop. Popen starts the process
\* and the thread goes on to line 61, where it waits for the process; or
\* Popen raises: FileNotFoundError ends the call (lines 96-98), any other
\* exception ends the pass (lines 99-101)
TranslateAttemptStarts ==
    /\ pc \in {"split", "translating"}
    /\ pc = "split" => (decodes(sentence_file) /\ strip(read_text(sentence_file)) # <<>>)
    /\ attempt < Len(models_to_try)
    /\ original_content' = IF pc = "split" THEN read_text(sentence_file) ELSE original_content
    /\ \/ /\ pc' = "communicating"
          /\ last_stdout' = [kind |-> "no exit", text |-> <<>>]
          /\ UNCHANGED attempt
       \/ /\ last_stdout' = [kind |-> "FileNotFoundError", text |-> <<>>]
          /\ attempt' = attempt + 1
          /\ pc' = "failed"
       \/ /\ last_stdout' = [kind |-> "exception", text |-> <<>>]
          /\ NextAttempt
    /\ UNCHANGED <<cues, srt, time_file, sentence_file, split_sentence, output_srt, srt_output>>
    /\ UNCHANGED codecVars
    /\ UNCHANGED validatorVars
    /\ UNCHANGED toolVars

\* what ends a wait without an answer: a non-zero exit status (lines 63-65),
\* an exception raised by communicate (lines 99-101)
ProcessFailures == {"nonzero exit", "exception"}

\* lines 61-65 and 99-101: the process the thread waits for ends without an
\* answer, and with it the pass of the loop
TranslateAttemptFails ==
    /\ pc = "communicating"
    /\ \E failure \in ProcessFailures :
          /\ last_stdout' = [kind |-> failure, text |-> <<>>]
          /\ NextAttempt
    /\ UNCHANGED <<cues, srt, time_file, sentence_file, split_sentence, output_srt,
                   srt_output, original_content>>
    /\ UNCHANGED codecVars
    /\ UNCHANGED validatorVars
    /\ UNCHANGED toolVars

\* lines 61-94: the process the thread waits for exits with status 0; its
\* output is filtered and checked, and written to the sentence file when it
\* passes both checks. The prompt was built from original_content.
TranslateAttemptAnswers ==
    /\ pc = "communicating"
    /\ \E stdout \in ExternalStdouts(original_content) :
          LET translated_content == translated_content_of(stdout)
          IN  /\ last_stdout' = [kind |-> "stdout", text |-> stdout]
              /\ IF accepted(translated_content)
                 THEN /\ sentence_file' = strip(translated_content)
                      /\ attempt' = attempt + 1
                      /\ pc' = "translated"
                 ELSE /\ NextAttempt
                      /\ UNCHANGED sentence_file
    /\ UNCHANGED <<cues, srt, time_file, split_sentence, output_srt, srt_output,
                   original_content>>
    /\ UNCHANGED codecVars
    /\ UNCHANGED validatorVars
    /\ UNCHANGED toolVars

\* the sentence file is the one the Splitter has just written, which can be
\* read: TranslateUnreadable belongs to a call on a file found in the folder
NextTranslate ==
    \/ SplitSingleSrt
    \/ TranslateEmpty
    \/ TranslateAttemptStarts
    \/ TranslateAttemptFails
    \/ TranslateAttemptAnswers
    \/ MergeSingleSrt

SpecTranslate == InitTranslate /\ [][NextTranslate]_vars

\* the sentence files a call may find in the folder for the cues cs: the
\* stream of the Splitter with each kind of line end (the folder is the
\* user's, the file may have been saved again by another tool); for at most
\* one cue, the stream followed by bytes that are not UTF-8; for no cue, a
\* file of one line end
SentenceFiles(cs, stream) ==
    {stream}
        \cup (IF Len(cs) <= 2
              THEN {with_line_ends(stream, line_end) : line_end \in LineEnds}
              ELSE {})
        \cup (IF Len(cs) <= 1 THEN {stream \o <<InvalidUtf8>>} ELSE {})
        \cup (IF cs = <<>> THEN LineEnds ELSE {})

\* one call of _translate_single_file on the sentence file of a split SRT
InitTranslateCall ==
    /\ cues \in TranslateCues
    /\ srt = RenderSrt(cues)
    /\ time_file = time_stream(parse_srt_content(srt))
    /\ sentence_file \in SentenceFiles(cues, sentence_stream(parse_srt_content(srt)))
    /\ split_sentence = sentence_file
    /\ output_srt = "absent"
    /\ srt_output = <<>>
    /\ pc = "split"
    /\ attempt = 0
    /\ last_stdout = NoAttempt
    /\ original_content = <<>>
    /\ IdleCodec
    /\ IdleValidator
    /\ IdleTools

TranslateCallStep ==
    \/ TranslateEmpty
    \/ TranslateUnreadable
    \/ TranslateAttemptStarts
    \/ TranslateAttemptFails
    \/ TranslateAttemptAnswers

\* the steps the thread takes on its own; TranslateAttemptFails and
\* TranslateAttemptAnswers are taken when the external process ends
TranslateThreadStep == TranslateEmpty \/ TranslateUnreadable \/ TranslateAttemptStarts

\* what tells a step of the call from a stuttering step
progress == <<pc, attempt>>

\* the thread that runs the call is scheduled as long as it has a step of
\* its own to take: it is the only thread of the task (gui.py lines 375-381).
\* Nothing makes the external process end: communicate is called without a
\* timeout (line 61), so the wait for it has no bound.
SpecTranslateCall ==
    InitTranslateCall /\ [][TranslateCallStep]_vars /\ WF_progress(TranslateThreadStep)

(***************************************************************************)
(* Properties of the Splitter and the Merger.                              *)
(***************************************************************************)
FirstLine(chunk) == split(strip(chunk), <<NL>>)[1]

RECURSIVE BlocksOfPair(_, _)
BlocksOfPair(blocks, k) ==
    IF blocks = <<>> THEN <<>>
    ELSE IF Head(blocks).pair = k THEN <<Head(blocks)>> \o BlocksOfPair(Tail(blocks), k)
    ELSE BlocksOfPair(Tail(blocks), k)

\* the text lines emitted for pair k, in output order
EmittedLines(k) ==
    LET bs == BlocksOfPair(srt_output, k)
    IN  concat([i \in 1..Len(bs) |-> split(bs[i].text, <<NL>>)])

PairCount ==
    LET t == Len(stream_chunks(time_file))
        n == Len(stream_chunks(sentence_file))
    IN  IF t < n THEN t ELSE n

\* the pairs the Merger reads a time chunk of at least two lines for
ReadablePairs ==
    {k \in 1..PairCount :
        /\ stream_chunks(time_file)[k] # <<>>
        /\ stream_chunks(sentence_file)[k] # <<>>
        /\ Len(split(strip(stream_chunks(time_file)[k]), <<NL>>)) >= 2}

TimeLines(k) == split(strip(stream_chunks(time_file)[k]), <<NL>>)
SentenceLines(k) == split(strip(stream_chunks(sentence_file)[k]), <<NL>>)

NonBlankLines(lines) ==
    LET keep == {i \in 1..Len(lines) : \E j \in 1..Len(lines[i]) : lines[i][j] \notin Whitespace}
        Rank(i) == Cardinality({j \in keep : j <= i})
    IN  [r \in 1..Cardinality(keep) |-> lines[CHOOSE i \in keep : Rank(i) = r]]

\* a time line made of two well-formed timestamps around " --> "
WellFormedRange(time_line) ==
    LET times == split(time_line, <<" ", "-", "-", ">", " ">>)
    IN  Len(times) = 2 /\ WellFormedTimestamp(times[1]) /\ WellFormedTimestamp(times[2])

RangeStart(time_line) == split(time_line, <<" ", "-", "-", ">", " ">>)[1]
RangeEnd(time_line) == split(time_line, <<" ", "-", "-", ">", " ">>)[2]

\* a cue list of a well-formed SRT file with sequential indices and exactly
\* one non-blank text line per cue
SequentialSingleLineCues(cs) ==
    /\ Len(cs) >= 1
    /\ \A i \in 1..Len(cs) :
          /\ cs[i].index = str(i)
          /\ WellFormedRange(cs[i].time)
          /\ NL \notin Chars(cs[i].text)
          /\ \E j \in 1..Len(cs[i].text) : cs[i].text[j] \notin Whitespace

ExpectedRoundTrip(cs, Text(_)) ==
    join(<<NL>>, [i \in 1..Len(cs) |->
                     str(i) \o <<NL>> \o cs[i].time \o <<NL>> \o Text(cs[i].text) \o <<NL>>])

SameText(t) == t
TrimmedText(t) == strip(t)

\* C1 as stated: splitting the parse of a well-formed SRT text with
\* sequential indices and single-line cues and merging the unmodified streams
\* gives N blocks in order, block i with index i and the time-range text and
\* the text line of cue i.
C1_RoundTripSameText ==
    (pc = "merged" /\ sentence_file = split_sentence /\ SequentialSingleLineCues(cues))
    => /\ Len(srt_output) = Len(cues)
       /\ output_srt = ExpectedRoundTrip(cues, SameText)

\* C1 amended: the round trip gives N blocks in order, block i with index i,
\* the time-range text of cue i and the text line of cue i with its leading
\* and trailing whitespace removed.
C1_RoundTripTrimmedText ==
    (pc = "merged" /\ sentence_file = split_sentence /\ SequentialSingleLineCues(cues))
    => /\ Len(srt_output) = Len(cues)
       /\ output_srt = ExpectedRoundTrip(cues, TrimmedText)

\* two well-formed cues, one of them with an indented text line, went through
\* split and merge
C1_Witness ==
    /\ pc = "merged"
    /\ sentence_file = split_sentence
    /\ SequentialSingleLineCues(cues)
    /\ Len(cues) = 2
    /\ \E i \in 1..2 : cues[i].text[1] = " "
    /\ Len(srt_output) = 2

\* the index lines of a sentence-stream text: the first line of each chunk
SentenceIndexLines(text) ==
    LET chunks == stream_chunks(text)
    IN  [k \in 1..Len(chunks) |-> FirstLine(chunks[k])]

\* chunks of an index line followed by text lines, none of them a time line
IsSentenceStream(text) ==
    /\ \A k \in 1..Len(stream_chunks(text)) : isdigit(SentenceIndexLines(text)[k])
    /\ \A i \in 1..Len(split(text, <<NL>>)) : ~time_pattern_search(split(text, <<NL>>)[i])

Sequential(index_lines) == \A k \in 1..Len(index_lines) : int(index_lines[k]) = k

\* C2: when the external process answers a sentence stream numbered 1, 2, ...
\* with sentence-stream text whose index lines are not exactly 1, 2, 3, ...
\* (a cue was dropped or repeated), _translate_single_file does not accept the
\* answer and does not write it to the sentence file.
C2_DroppedCueRejected ==
    (/\ last_stdout.kind = "stdout"
     /\ IsSentenceStream(split_sentence)
     /\ Sequential(SentenceIndexLines(split_sentence))
     /\ IsSentenceStream(translated_content_of(last_stdout.text))
     /\ ~Sequential(SentenceIndexLines(translated_content_of(last_stdout.text))))
    => ~(/\ pc \in {"translated", "merged"}
         /\ sentence_file = strip(translated_content_of(last_stdout.text)))

\* C5: after a merge the emitted blocks carry the indices 1, 2, ..., N in
\* output order, in the block list and in the text written to the output file.
C5_MergedRenumbered ==
    pc = "merged"
    => /\ \A i \in 1..Len(srt_output) : srt_output[i].number = i
       /\ LET chunks == IF output_srt = <<>> THEN <<>> ELSE stream_chunks(output_srt)
          IN  /\ Len(chunks) = Len(srt_output)
              /\ \A i \in 1..Len(chunks) : FirstLine(chunks[i]) = str(i)

\* the first pair was dropped and the second pair, whose original index is
\* not 1, was emitted through the single-block fallback
C5_Witness ==
    /\ pc = "merged"
    /\ Len(srt_output) = 1
    /\ srt_output[1].pair = 2
    /\ TimeLines(2)[1] # <<"1">>
    /\ Len(split(srt_output[1].text, <<NL>>)) >= 2

\* the chunk as it is cut, not stripped, starts with the line `number`
StartsWithLine(chunk, number) == split(chunk, <<NL>>)[1] = number

\* C6 as stated: the time stream and the sentence stream written by the
\* Splitter, cut as the Merger cuts them, each have exactly len(blocks) chunks,
\* and chunk k of each starts with the index of block k, for every block
\* sequence including the empty one.
C6_StreamsHaveOneChunkPerBlock ==
    pc \in {"split", "merged"}
    => \E blocks \in {parse_srt_content(read_text(srt))} :
       \E tc \in {stream_chunks(time_file)} :
       \E sc \in {stream_chunks(split_sentence)} :
          /\ Len(tc) = Len(blocks)
          /\ Len(sc) = Len(blocks)
          /\ \A k \in 1..Len(blocks) :
                StartsWithLine(tc[k], blocks[k].number)
                   /\ StartsWithLine(sc[k], blocks[k].number)

\* the sentence chunk the cut gives for block k: a line break when the block
\* before it has no text, the index, and the text after a line break when
\* the block has text
SentenceChunkOf(blocks, k) ==
    (IF k > 1 /\ blocks[k - 1].text = <<>> THEN <<NL>> ELSE <<>>)
        \o blocks[k].number
        \o (IF blocks[k].text = <<>> THEN <<>> ELSE <<NL>> \o blocks[k].text)

\* C6 amended: for a non-empty block sequence each stream has exactly
\* len(blocks) chunks; time chunk k is the index of block k, a line break and
\* its time line; sentence chunk k is the index of block k, followed by a
\* line break and the text when the block has text, and preceded by one line
\* break when block k - 1 has no text, so that it has the index as its first
\* line once it is stripped as the Merger strips it; for the empty block
\* sequence each stream is cut into one empty chunk.
C6_StreamsHaveOneChunkPerBlockUnlessEmpty ==
    pc \in {"split", "merged"}
    => \E blocks \in {parse_srt_content(read_text(srt))} :
       \E tc \in {stream_chunks(time_file)} :
       \E sc \in {stream_chunks(split_sentence)} :
          IF blocks = <<>>
          THEN tc = << <<>> >> /\ sc = << <<>> >>
          ELSE /\ Len(tc) = Len(blocks)
               /\ Len(sc) = Len(blocks)
               /\ \A k \in 1..Len(blocks) :
                     /\ tc[k] = blocks[k].number \o <<NL>> \o blocks[k].time
                     /\ sc[k] = SentenceChunkOf(blocks, k)
                     /\ FirstLine(sc[k]) = blocks[k].number

\* two blocks, the first with empty text, were split: the second sentence
\* chunk starts with a line break
C6_Witness ==
    /\ pc = "split"
    /\ Len(parse_srt_content(read_text(srt))) = 2
    /\ parse_srt_content(read_text(srt))[1].text = <<>>
    /\ Len(stream_chunks(split_sentence)) = 2
    /\ Head(stream_chunks(split_sentence)[2]) = NL

\* the instant of a well-formed timestamp in milliseconds
Millis(ts) == InstantSeconds(ts) * 1000 + InstantMillis(ts)

Abs(x) == IF x < 0 THEN 0 - x ELSE x

\* C7: a pair with k >= 2 non-blank text lines and the range start --> end is
\* emitted as k blocks, one per line in order; block 1 starts at start, block
\* j + 1 starts where block j ends, block j < k lasts len(line j) / (sum of
\* the lengths) of end - start (to the millisecond), and block k ends at end.
C7_ProportionalSplit ==
    pc = "merged"
    => \A p \in ReadablePairs :
          LET lines == NonBlankLines(IF SentenceLines(p)[1] = TimeLines(p)[1]
                                     THEN Tail(SentenceLines(p)) ELSE SentenceLines(p))
              k == Len(lines)
              bs == BlocksOfPair(srt_output, p)
              start == Millis(RangeStart(TimeLines(p)[2]))
              end == Millis(RangeEnd(TimeLines(p)[2]))
              total == sum_len(lines)
          IN  (k >= 2 /\ WellFormedRange(TimeLines(p)[2]))
              => /\ Len(bs) = k
                 /\ \A j \in 1..k : bs[j].text = lines[j] /\ WellFormedRange(bs[j].time)
                 /\ Millis(RangeStart(bs[1].time)) = start
                 /\ \A j \in 1..(k - 1) :
                       /\ RangeStart(bs[j + 1].time) = RangeEnd(bs[j].time)
                       /\ Abs((Millis(RangeEnd(bs[j].time)) - Millis(RangeStart(bs[j].time))) * total
                              - Len(lines[j]) * (end - start)) <= total
                 /\ Millis(RangeEnd(bs[k].time)) = end

\* C8: when the first line of a sentence chunk is numeric and equal to the
\* index of the time chunk at the same position, the emitted text of the pair
\* is the remaining non-blank lines in order; when the first line differs from
\* the paired index, the emitted text is all non-blank lines of the chunk, the
\* first one included.
C8_IndexStripping ==
    pc = "merged"
    => \A p \in ReadablePairs :
          LET first == SentenceLines(p)[1]
              number == TimeLines(p)[1]
          IN  /\ (isdigit(first) /\ first = number)
                    => EmittedLines(p) = NonBlankLines(Tail(SentenceLines(p)))
              /\ first # number
                    => EmittedLines(p) = NonBlankLines(SentenceLines(p))

\* a merge in which one chunk lost its echoed index and another chunk, whose
\* numeric first line differs from the paired index, kept it as text
C8_Witness ==
    /\ pc = "merged"
    /\ \E p \in ReadablePairs :
          /\ SentenceLines(p)[1] = TimeLines(p)[1]
          /\ EmittedLines(p) # <<>>
          /\ EmittedLines(p)[1] # SentenceLines(p)[1]
    /\ \E p \in ReadablePairs :
          /\ SentenceLines(p)[1] # TimeLines(p)[1]
          /\ isdigit(SentenceLines(p)[1])
          /\ EmittedLines(p)[1] = SentenceLines(p)[1]

\* C11: every timestamp the Merger emits has the millisecond separator of the
\* time-stream timestamp it was derived from, for single-line pairs and for
\* the blocks of a proportional split.
C11_MergeSeparatorPreserved ==
    pc = "merged"
    => \A p \in ReadablePairs :
          WellFormedRange(TimeLines(p)[2])
          => \A j \in 1..Len(BlocksOfPair(srt_output, p)) :
                LET b == BlocksOfPair(srt_output, p)[j]
                IN  /\ WellFormedRange(b.time)
                    /\ SeparatorOf(RangeStart(b.time)) = SeparatorOf(RangeStart(TimeLines(p)[2]))
                    /\ SeparatorOf(RangeEnd(b.time)) = SeparatorOf(RangeEnd(TimeLines(p)[2]))

\* the timestamp of an instant given in milliseconds, hours unbounded
TimestampOfMillis(ms, sep) ==
    MakeTimestamp(ms \div 3600000, (ms \div 60000) % 60, (ms \div 1000) % 60, ms % 1000, sep)

\* instant + offset in milliseconds, for offsets of a few days at most
ShiftedMillis(s, offset) ==
    Millis(s) + offset.days * 86400000 + offset.seconds * 1000 + offset.microseconds \div 1000

\* C12: a timestamp whose hour field is 24 or more is well-formed for the Time
\* Codec: shifting it gives the timestamp of the shifted instant (zero when
\* that lies below zero), and converting it to a duration gives its hours,
\* minutes, seconds and milliseconds, not the input text and not zero.
C12_UnboundedHours ==
    (/\ shifted.status # "pending"
     /\ WellFormedTimestamp(time_str)
     /\ InstantSeconds(time_str) >= 24 * 3600
     /\ offset_seconds.days \in -2..1)
    => /\ shifted = Returned(IF ShiftedMillis(time_str, offset_seconds) < 0
                             THEN ZeroTimestamp(SeparatorOf(time_str))
                             ELSE TimestampOfMillis(ShiftedMillis(time_str, offset_seconds),
                                                    SeparatorOf(time_str)))
       /\ _time_str_to_timedelta(time_str)
             = [seconds |-> InstantSeconds(time_str),
                microseconds |-> InstantMillis(time_str) * 1000]

(***************************************************************************)
(* utils.parse_srt_content as concurrent calls, one loop iteration a step   *)
(***************************************************************************)
MaxParseChunks == 3

\* faulty variant of line 27: a counter kept across calls instead of a local
RECURSIVE fresh_block_counter_shared(_)
fresh_block_counter_shared(cs) ==
    IF cs = <<>> THEN 1
    ELSE Len(cs[1].blocks) + fresh_block_counter_shared(Tail(cs))

\* line 27: block_counter = 1, a local of the call whatever the other calls did
fresh_block_counter(cs) == 1

\* lines 29-52: one iteration of the loop, the blocks it appends (none or one)
chunk_blocks(chunk, block_counter) ==
    LET lines == split(strip(chunk), <<NL>>)
        time_line_index == first_time_line(lines, 1)
    IN  IF lines[1] = <<>> \/ time_line_index = 0
        THEN <<>>
        ELSE LET number_part == SubSeq(lines, 1, time_line_index - 1)
                 text_part == SubSeq(lines, time_line_index + 1, Len(lines))
                 number_str == strip(join(<<NL>>, number_part))
             IN  <<[number |-> number_of_chunk(number_str, block_counter),
                    time |-> strip(lines[time_line_index]),
                    text |-> strip(join(<<NL>>, text_part))]>>

\* a call that was made and has not started to run
NewCall(text) ==
    [content |-> text, status |-> "called", content_chunks |-> <<>>, k |-> 0,
     block_counter |-> 0, blocks |-> <<>>]

ParseTimeLine == TimeLine(0, 1, 0, 0, 2, 0, ",", SpacedArrow)

\* chunks: without index, with an integer index, and without a time line
ParseChunkVocabulary ==
    { ParseTimeLine \o <<NL, "h", "i">>,
      <<"7", NL>> \o ParseTimeLine \o <<NL, "h", "i">>,
      <<"h", "i">> }

ParseFiles ==
    UNION { { join(<<NL, NL>>, cs) : cs \in [1..n -> ParseChunkVocabulary] } : n \in 1..MaxParseChunks }

\* the file a second thread parses when it does not parse the same one: a
\* chunk with a non-integer index, one without index, one with an index and a
\* time line only, one without a time line, one with two index lines and two
\* time lines, and one with a superscript digit as index whose arrow has a
\* form feed and a no-break space around it
OtherParseFile ==
    join(<<NL, NL>>,
         << <<"x", NL>> \o ParseTimeLine \o <<NL, "a">>,
            ParseTimeLine \o <<NL, "b">>,
            <<"5", NL>> \o ParseTimeLine,
            <<"h", "i">>,
            <<"9", NL, "q", NL>> \o ParseTimeLine \o <<NL>>
                \o TimeLine(0, 3, 0, 0, 4, 0, ".", BareArrow) \o <<NL, "c">>,
            <<"²", NL>> \o TimeLine(0, 5, 0, 0, 6, 0, ",", <<"\f", "-", "-", ">", " ">>)
                \o <<NL, "d">> >>)

InitParse ==
    /\ \E x \in ParseFiles : \E y \in {x, OtherParseFile} :
          /\ calls = <<NewCall(x), NewCall(y)>>
          /\ content = x
    /\ history = NoHistory
    /\ fmt_result = Pending
    /\ seq_result = Pending
    /\ time_str = MakeTimestamp(0, 0, 1, 0, ",")
    /\ offset_seconds = timedelta(1, 500000)
    /\ shifted = Pending
    /\ IdlePipeline
    /\ IdleShifter /\ IdleBackup /\ IdleBatch

\* lines 22-27: the call starts, its locals are created
ParseStart(c) ==
    /\ calls[c].status = "called"
    /\ calls' = [calls EXCEPT ![c] =
                    [@ EXCEPT !.status = "running",
                              !.content_chunks = split(strip(calls[c].content), <<NL, NL>>),
                              !.k = 1,
                              !.block_counter = fresh_block_counter(calls),
                              !.blocks = <<>>]]
    /\ UNCHANGED history
    /\ UNCHANGED shifterVars
    /\ UNCHANGED backupVars
    /\ UNCHANGED batchVars
    /\ UNCHANGED codecVars
    /\ UNCHANGED validatorVars
    /\ UNCHANGED pipelineVars

\* lines 28-53: one iteration of the loop of call c
ParseChunk(c) ==
    /\ calls[c].status = "running"
    /\ calls[c].k <= Len(calls[c].content_chunks)
    /\ LET appended == chunk_blocks(calls[c].content_chunks[calls[c].k], calls[c].block_counter)
       IN  calls' = [calls EXCEPT ![c] =
                        [@ EXCEPT !.k = @ + 1,
                                  !.block_counter = @ + Len(appended),
                                  !.blocks = @ \o appended]]
    /\ UNCHANGED history
    /\ UNCHANGED shifterVars
    /\ UNCHANGED backupVars
    /\ UNCHANGED batchVars
    /\ UNCHANGED codecVars
    /\ UNCHANGED validatorVars
    /\ UNCHANGED pipelineVars

\* line 54: return blocks
ParseReturn(c) ==
    /\ calls[c].status = "running"
    /\ calls[c].k > Len(calls[c].content_chunks)
    /\ calls' = [calls EXCEPT ![c] = [@ EXCEPT !.status = "returned"]]
    /\ UNCHANGED history
    /\ UNCHANGED shifterVars
    /\ UNCHANGED backupVars
    /\ UNCHANGED batchVars
    /\ UNCHANGED codecVars
    /\ UNCHANGED validatorVars
    /\ UNCHANGED pipelineVars

ParseCall == \E c \in DOMAIN calls : ParseStart(c) \/ ParseChunk(c) \/ ParseReturn(c)

\* a third thread that calls the shifter and then the two validators
OtherCall ==
    \/ ShiftTimeString
    \/ shifted.status # "pending" /\ ValidateFormat
    \/ fmt_result.status # "pending" /\ ValidateSequential

NextParse == ParseCall \/ OtherCall

SpecParse == InitParse /\ [][NextParse]_vars

\* the index text of a chunk that has a time line: what stands before that line
IndexText(chunk) ==
    LET lines == split(strip(chunk), <<NL>>)
    IN  strip(join(<<NL>>, SubSeq(lines, 1, first_time_line(lines, 1) - 1)))

HasTimeLine(chunk) ==
    LET lines == split(strip(chunk), <<NL>>)
    IN  lines[1] # <<>> /\ first_time_line(lines, 1) > 0

\* a chunk with a time line whose index is empty or not a pure integer: a
\* character other than 0-9 stands in it
Anonymous(chunk) ==
    HasTimeLine(chunk) /\ (IndexText(chunk) = <<>> \/ ~AllDecimal(IndexText(chunk)))

\* position among the parsed blocks of the block made from chunk k
BlockOfChunk(chunks, k) == Cardinality({j \in 1..k : HasTimeLine(chunks[j])})

AnonymousChunks(chunks) == {k \in 1..Len(chunks) : Anonymous(chunks[k])}

\* a and b are anonymous chunks with no anonymous chunk between them
NextAnonymous(chunks, a, b) ==
    /\ a \in AnonymousChunks(chunks) /\ b \in AnonymousChunks(chunks) /\ a < b
    /\ \A m \in (a + 1)..(b - 1) : m \notin AnonymousChunks(chunks)

ReturnedCalls == {c \in DOMAIN calls : calls[c].status = "returned"}

\* C13: in a parsed file every chunk with a time line whose index is empty or
\* not a pure integer gets the fallback number as its number: the value of the
\* counter that starts at 1 for the parse and is incremented once per parsed
\* block, which is the position of the chunk among the parsed blocks.
C13_AnonymousChunksGetFallbackNumber ==
    \A c \in ReturnedCalls :
        LET chunks == calls[c].content_chunks
        IN  \A a \in AnonymousChunks(chunks) :
                calls[c].blocks[BlockOfChunk(chunks, a)].number
                    = str(BlockOfChunk(chunks, a))

(***************************************************************************)
(* Repeated calls of the four functions of utils.py by three threads       *)
(***************************************************************************)
MaxRepeats == 2

\* the files parsed again and again: two chunks without index, and a chunk
\* with the index 7 before a chunk without index
RepeatFiles ==
    { join(<<NL, NL>>, <<ParseTimeLine \o <<NL, "h", "i">>, ParseTimeLine \o <<NL, "h", "i">> >>),
      join(<<NL, NL>>, << <<"7", NL>> \o ParseTimeLine \o <<NL, "h", "i">>,
                          ParseTimeLine \o <<NL, "h", "i">> >>) }

\* the arguments of the third thread: a timestamp for shift_time_string and a
\* content for the validators, well numbered with empty lines between the
\* blocks, or with the index 3 right after a text line and no index 2
RepeatInputs ==
    { [time_str |-> MakeTimestamp(0, 0, 1, 0, ","),
       content |-> join(<<NL, NL>>, << <<"1", NL>> \o ParseTimeLine \o <<NL, "h", "i">>,
                                       <<"2", NL>> \o ParseTimeLine \o <<NL, "h", "i">> >>)],
      [time_str |-> MakeTimestamp(0, 0, 59, 900, "."),
       content |-> join(<<NL, NL>>, << <<"1", NL>> \o ParseTimeLine \o <<NL, "h", "i", NL, "3", NL>>
                                           \o ParseTimeLine \o <<NL, "h", "i">>,
                                       <<"3", NL>> \o ParseTimeLine \o <<NL, "x">> >>)] }

InitRepeat ==
    /\ \E x \in RepeatFiles : \E y \in RepeatFiles : calls = <<NewCall(x), NewCall(y)>>
    /\ \E i \in RepeatInputs : time_str = i.time_str /\ content = i.content
    /\ history = NoHistory
    /\ offset_seconds = timedelta(1, 500000)
    /\ shifted = Pending
    /\ fmt_result = Pending
    /\ seq_result = Pending
    /\ IdlePipeline
    /\ IdleShifter /\ IdleBackup /\ IdleBatch

\* the first thread, whose call returned, calls parse_srt_content again, on
\* any of the files, while the second thread makes its one call. The returned
\* call is remembered with its argument and its result, and the new call has
\* a frame of its own.
ParseAgain ==
    /\ calls[1].status = "returned"
    /\ Len(history.parser) < MaxRepeats
    /\ \E x \in RepeatFiles :
          calls' = [calls EXCEPT ![1] = NewCall(x)]
    /\ history' = [history EXCEPT !.parser =
                      Append(@, [content |-> calls[1].content, blocks |-> calls[1].blocks])]
    /\ UNCHANGED shifterVars
    /\ UNCHANGED backupVars
    /\ UNCHANGED batchVars
    /\ UNCHANGED codecVars
    /\ UNCHANGED validatorVars
    /\ UNCHANGED pipelineVars

\* the third thread, whose three calls returned, makes them again with new
\* arguments; the returned calls are remembered
OtherAgain ==
    /\ shifted.status # "pending"
    /\ fmt_result.status # "pending"
    /\ seq_result.status # "pending"
    /\ Len(history.other) < MaxRepeats
    /\ \E i \in RepeatInputs : time_str' = i.time_str /\ content' = i.content
    /\ shifted' = Pending
    /\ fmt_result' = Pending
    /\ seq_result' = Pending
    /\ history' = [history EXCEPT !.other =
                      Append(@, [time_str |-> time_str, offset_seconds |-> offset_seconds,
                                 shifted |-> shifted, content |-> content,
                                 fmt_result |-> fmt_result, seq_result |-> seq_result])]
    /\ UNCHANGED <<offset_seconds, calls>>
    /\ UNCHANGED shifterVars
    /\ UNCHANGED backupVars
    /\ UNCHANGED batchVars
    /\ UNCHANGED pipelineVars

NextRepeat ==
    \/ ParseCall
    \/ ParseAgain
    \/ OtherCall
    \/ OtherAgain

SpecRepeat == InitRepeat /\ [][NextRepeat]_vars

\* the returned calls, earlier ones and those whose result is still held: the
\* argument of each with its result
ParserReturns ==
    { [content |-> history.parser[i].content, blocks |-> history.parser[i].blocks] :
          i \in DOMAIN history.parser }
    \cup { [content |-> calls[c].content, blocks |-> calls[c].blocks] : c \in ReturnedCalls }

ShifterReturns ==
    { [time_str |-> history.other[i].time_str, offset_seconds |-> history.other[i].offset_seconds,
       result |-> history.other[i].shifted] : i \in DOMAIN history.other }
    \cup (IF shifted.status = "pending" THEN {}
          ELSE {[time_str |-> time_str, offset_seconds |-> offset_seconds, result |-> shifted]})

FormatReturns ==
    { [content |-> history.other[i].content, result |-> history.other[i].fmt_result] :
          i \in DOMAIN history.other }
    \cup (IF fmt_result.status = "pending" THEN {}
          ELSE {[content |-> content, result |-> fmt_result]})

SequentialReturns ==
    { [content |-> history.other[i].content, result |-> history.other[i].seq_result] :
          i \in DOMAIN history.other }
    /\ shifted.status # "pending"
    /\ fmt_result.status # "pending"
    /\ seq_result.status # "pending"

(***************************************************************************)
(* core._backup_failed_srt and the per-file body of gui._execute_adv_shift  *)
(***************************************************************************)
\* faulty variant of lines 192-193: the copy is written over an existing one
_backup_failed_srt_overwrite(source, quarantine) ==
    IF source.exists THEN File(source.bytes) ELSE quarantine

\* core.py lines 187-202: the quarantine copy after the call. An existing copy
\* is kept; a source that cannot be opened raises before the copy is created,
\* and the exception is logged only.
_backup_failed_srt(source, quarantine) ==
    IF quarantine.exists THEN quarantine
    ELSE IF source.exists THEN File(source.bytes)
    ELSE quarantine

\* the bytes the source had when a call created the copy
first_copy(first, source, before, after) ==
    IF ~before.exists /\ after.exists THEN File(source.bytes) ELSE first

\* gui.py line 446, one block: the text built for it, or the exception raised.
\* The condition int(b['number']) >= start_num is evaluated first, then the
\* expressions of the f-string from left to right.
shifted_block(b, parts, new_start, new_end) ==
    IF new_start.status = "raised" THEN new_start
    ELSE IF Len(parts) < 2 THEN Raised("IndexError")
    ELSE IF new_end.status = "raised" THEN new_end
    ELSE Returned(b.number \o <<NL>> \o new_start.value \o SpacedArrow
                  \o new_end.value \o <<NL>> \o b.text \o <<NL>>)

\* the f-string over the parts of the time line: parts[0] is shifted, then
\* parts[1] is indexed and shifted
shift_parts(b, parts, offset) ==
    shifted_block(b, parts, shift_time_string(parts[1], offset),
                  shift_time_string(parts[2], offset))

shift_block(b, start, offset) ==
    IF int_raises(b.number) THEN Raised("ValueError")
    ELSE IF int(b.number) >= start THEN shift_parts(b, split(b.time, SpacedArrow), offset)
    ELSE Returned(b.number \o <<NL>> \o b.time \o <<NL>> \o b.text \o <<NL>>)

\* srt_tool.py line 695: start_time, end_time = block["time"].split(" --> ")
unpack_parts(b, parts, offset) ==
    IF Len(parts) # 2 THEN Raised("ValueError") ELSE shift_parts(b, parts, offset)

\* srt_tool.py lines 692-702, one pass of the loop: the text appended for the
\* block, or the exception raised. The time line is unpacked into exactly two
\* parts before either of them is shifted.
shift_block_unpacked(b, start, offset) ==
    IF int_raises(b.number) THEN Raised("ValueError")
    ELSE IF int(b.number) >= start THEN unpack_parts(b, split(b.time, SpacedArrow), offset)
    ELSE Returned(b.number \o <<NL>> \o b.time \o <<NL>> \o b.text \o <<NL>>)

\* the three programs of the repository with a GUI class SrtToolApp:
\* the package srt_tool_app (gui.py with core.py), the single file
\* srt_tool.py, and the class SrtToolApp of capcut_srt_extractor.py
Programs == {"srt_tool_app", "srt_tool", "capcut_srt_extractor"}

\* the programs with the command _execute_adv_shift(dir_path, start_num,
\* offset): the package srt_tool_app (gui.py lines 434-456) and the single
\* file srt_tool.py (lines 677-716)
AdvShiftPrograms == {"srt_tool_app", "srt_tool"}

\* gui.py line 446: the list comprehension over the parsed blocks;
\* srt_tool.py lines 691-702: the loop over them
shift_blocks(p, blocks, start, offset) ==
    [i \in 1..Len(blocks) |->
        IF p = "srt_tool_app" THEN shift_block(blocks[i], start, offset)
        ELSE shift_block_unpacked(blocks[i], start, offset)]

\* gui.py line 449 writes "".join(new_srt_content), srt_tool.py line 707
\* "\n".join(new_srt_content)
shifted_text(p, parts) ==
    IF p = "srt_tool_app" THEN concat(parts) ELSE join(<<NL>>, parts)

\* f.readlines() of a file opened in text mode: the lines of the text, each
\* with the \n that ends it
readlines(text) ==
    LET parts == split(text, <<NL>>)
        n == Len(parts)
        whole == [i \in 1..(n - 1) |-> parts[i] \o <<NL>>]
    IN  IF parts[n] = <<>> THEN whole ELSE Append(whole, parts[n])

\* the groups 1 and 2 of time_pattern.search(line), for a line the pattern is
\* found in: the two timestamps of the leftmost match
time_pattern_groups(line) ==
    LET starts == {i \in 1..Len(line) :
                      /\ TimestampAt(line, i)
                      /\ LET j == FirstNonSpace(line, i + 12)
                         IN  /\ j + 2 <= Len(line)
                             /\ SubSeq(line, j, j + 2) = <<"-", "-", ">">>
                             /\ TimestampAt(line, FirstNonSpace(line, j + 3))}
        i == CHOOSE x \in starts : \A y \in starts : x <= y
        k == FirstNonSpace(line, FirstNonSpace(line, i + 12) + 3)
    IN  <<SubSeq(line, i, i + 11), SubSeq(line, k, k + 11)>>

\* capcut_srt_extractor.py lines 956-963, one line of the file: a line the
\* pattern is found in is replaced by the two shifted timestamps around
\* " --> ", every other line is kept
shifted_line(new_start, new_end) ==
    IF new_start.status = "raised" THEN new_start
    ELSE IF new_end.status = "raised" THEN new_end
    ELSE Returned(new_start.value \o SpacedArrow \o new_end.value \o <<NL>>)

shift_groups(groups, offset) ==
    shifted_line(shift_time_string(groups[1], offset), shift_time_string(groups[2], offset))

shift_line(line, offset) ==
    IF time_pattern_search(line) THEN shift_groups(time_pattern_groups(line), offset)
    ELSE Returned(line)

shift_lines(lines, offset) == [i \in 1..Len(lines) |-> shift_line(lines[i], offset)]

MaxShiftCues == 2

ShiftIndexLines == {<<>>, <<"1">>, <<"3">>, <<"²">>}

\* a spaced arrow, an arrow without blanks, and text after the end timestamp
ShiftTimeLines ==
    { TimeLine(0, 1, 0, 0, 2, 0, ",", SpacedArrow),
      TimeLine(0, 1, 0, 0, 2, 500, ".", BareArrow),
      TimeLine(0, 3, 0, 0, 4, 0, ",", SpacedArrow) \o <<" ", "x">> }

ShiftCues ==
    SeqsUpTo([index : ShiftIndexLines, time : ShiftTimeLines, text : {<<"h", "i">>}], MaxShiftCues)

StartNums == {1, 2, 4}

\* forward, backward past zero, and before the first representable date
ShiftOffsets == {timedelta(1, 500000), timedelta(-5, 0), timedelta_days(-693596)}

InitShift ==
    /\ cues \in ShiftCues \ {<<>>}
    /\ srt \in SourceFiles(cues)
    /\ srt_path = File(srt)
    /\ start_num \in StartNums
    /\ offset_seconds \in ShiftOffsets
    /\ pc = "source"
    /\ time_file = "absent"
    /\ sentence_file = "absent"
    /\ split_sentence = "absent"
    /\ output_srt = "absent"
    /\ srt_output = <<>>
    /\ attempt = 0
    /\ last_stdout = NoAttempt
    /\ original_content = <<>>
    /\ new_srt_content = <<>>
    /\ shifted_file = NoFile
    /\ failed_srt = NoFile
    /\ first_backup = NoFile
    /\ time_str = <<>>
    /\ shifted = Pending
    /\ IdleValidator
    /\ batch = <<>>
    /\ batch_pos = 0
    /\ worker = "idle"
    /\ program \in Programs
    /\ program \notin AdvShiftPrograms => start_num = 1
    /\ model_name = "none"
    /\ IdleParser

\* the position of the first item that raised
first_raised(items) ==
    CHOOSE k \in 1..Len(items) :
        /\ items[k].status = "raised"
        /\ \A i \in 1..(k - 1) : items[i].status = "returned"

\* the list new_srt_content when an item raised. gui.py line 446 builds the
\* list in one comprehension, so the name is not bound when a block raises;
\* srt_tool.py lines 690-702 append block by block, so the list holds the
\* blocks built before the one that raised (and is not bound either when the
\* read of line 688 raised)
appended_before_raise(p, items, unbound) ==
    IF p = "srt_tool" /\ items # <<Raised("UnicodeDecodeError")>>
    THEN [i \in 1..(first_raised(items) - 1) |-> items[i].value]
    ELSE unbound

\* gui.py lines 447-452 and srt_tool.py lines 704-711: the blocks are
\* written, or the exception is handled
write_or_backup(items) ==
    IF \A i \in 1..Len(items) : items[i].status = "returned"
    THEN /\ new_srt_content' = [i \in 1..Len(items) |-> items[i].value]
         /\ shifted_file' = File(shifted_text(program, new_srt_content'))
         /\ pc' = "shifted"
         /\ UNCHANGED <<failed_srt, first_backup>>
    ELSE /\ new_srt_content' = appended_before_raise(program, items, new_srt_content)
         /\ failed_srt' = _backup_failed_srt(srt_path, failed_srt)
         /\ first_backup' = first_copy(first_backup, srt_path, failed_srt, failed_srt')
         /\ pc' = "shift_failed"
         /\ UNCHANGED shifted_file

\* gui.py lines 441-452 and srt_tool.py lines 684-711: one file of the
\* folder. A source that cannot be decoded raises in the read, inside the try.
AdvShiftFile ==
    /\ pc = "source"
    /\ program \in AdvShiftPrograms
    /\ \E source_text \in {read_text(srt_path.bytes)} :
          write_or_backup(IF decodes(srt_path.bytes)
                          THEN shift_blocks(program, parse_srt_content(source_text),
                                            start_num, offset_seconds)
                          ELSE <<Raised("UnicodeDecodeError")>>)
    /\ UNCHANGED <<start_num, srt_path>>
    /\ UNCHANGED <<cues, srt, time_file, sentence_file, split_sentence, output_srt, srt_output, attempt, last_stdout, original_content>>
    /\ UNCHANGED codecVars
    /\ UNCHANGED validatorVars
    /\ UNCHANGED batchVars
    /\ UNCHANGED parserVars

\* capcut_srt_extractor.py lines 964-977: the lines are written to
\* <base>_shifted.srt, or the exception is reported; the program keeps no
\* copy of the source
write_or_report(items) ==
    IF \A i \in 1..Len(items) : items[i].status = "returned"
    THEN /\ shifted_file' = File(concat([i \in 1..Len(items) |-> items[i].value]))
         /\ pc' = "lines_shifted"
    ELSE /\ pc' = "lines_failed"
         /\ UNCHANGED shifted_file

\* capcut_srt_extractor.py lines 941-979: _execute_shift(file_path, offset),
\* which shifts every time line of one file and has no start number
ExtractorShiftFile ==
    /\ pc = "source"
    /\ program = "capcut_srt_extractor"
    /\ \E source_text \in {read_text(srt_path.bytes)} :
          write_or_report(IF decodes(srt_path.bytes)
                          THEN shift_lines(readlines(source_text), offset_seconds)
                          ELSE <<Raised("UnicodeDecodeError")>>)
    /\ UNCHANGED <<start_num, srt_path, new_srt_content, failed_srt, first_backup>>
    /\ UNCHANGED <<cues, srt, time_file, sentence_file, split_sentence, output_srt, srt_output, attempt, last_stdout, original_content>>
    /\ UNCHANGED codecVars
    /\ UNCHANGED validatorVars
    /\ UNCHANGED batchVars
    /\ UNCHANGED parserVars

NextShift == AdvShiftFile \/ ExtractorShiftFile

SpecShift == InitShift /\ [][NextShift]_vars

\* the text the Shifter is to build for a block: index, time range, text
ShiftedBlockText(b) ==
    LET range == IF ~int_raises(b.number) /\ int(b.number) >= start_num
                 THEN shift_time_string(RangeStart(b.time), offset_seconds).value \o SpacedArrow
                      \o shift_time_string(RangeEnd(b.time), offset_seconds).value
                 ELSE b.time
    IN  b.number \o <<NL>> \o range \o <<NL>> \o b.text \o <<NL>>

\* C14: once _execute_adv_shift (gui.py, srt_tool.py) has handled a file
\* that can be read, there is a shifted output, and it is made of one block
\* for each parsed block, in the same order, with the same index and text; a
\* block with index >= start_num has its start and end replaced by their
\* shifted values and a block with index < start_num keeps its time range.
C14_ShifterSelectionAndFrame ==
    (pc \in {"shifted", "shift_failed"} /\ decodes(srt))
    => /\ pc = "shifted"
       /\ shifted_file.exists
       /\ \E blocks \in {parse_srt_content(read_text(srt))} :
             /\ Len(new_srt_content) = Len(blocks)
             /\ \A i \in 1..Len(blocks) : new_srt_content[i] = ShiftedBlockText(blocks[i])
             /\ shifted_file.bytes = shifted_text(program, new_srt_content)

\* C15: _translate_single_file returns failure only after every model of
\* models_to_try was tried: every kind of failed attempt (non-zero exit, raised
\* exception, missing executable, rejected answer) is followed by a retry with
\* the next model.
C15_FailureOnlyAfterEveryModel ==
    pc = "failed" => attempt = Len(models_to_try)

\* C16: every call of _translate_single_file on a split file returns success
\* or failure in the end, also when the external process never terminates.
C16_TranslateCallReturns ==
    (pc = "split") ~> (pc \in {"translated", "failed"})

(***************************************************************************)
(* gui._execute_one_click_workflow: the loop over the SRT files of a folder *)
(***************************************************************************)
MaxBatchFiles == 3

\* gui.py line 504 passes five arguments, core.py line 106 declares four
MergeArgsPassed == 5
MergeParams == 4

\* srt_tool.py lines 835-837 pass three arguments and line 504 declares three
\* besides self
MonolithMergeArgsPassed == 3
MonolithMergeParams == 3

\* capcut_srt_extractor.py lines 1082-1084 pass three arguments and line 801
\* declares three besides self
ExtractorMergeArgsPassed == 3
ExtractorMergeParams == 3

merge_args_passed(p) ==
    IF p = "srt_tool_app" THEN MergeArgsPassed
    ELSE IF p = "srt_tool" THEN MonolithMergeArgsPassed
    ELSE ExtractorMergeArgsPassed

merge_params(p) ==
    IF p = "srt_tool_app" THEN MergeParams
    ELSE IF p = "srt_tool" THEN MonolithMergeParams
    ELSE ExtractorMergeParams

\* srt_tool.py line 363: the models the user chooses model_name from
AvailableModels == {"gemini-1.5-pro", "gemini-1.5-flash", "gemini-2.5-pro"}

\* the list of models one call of _translate_single_file goes through:
\* core.py line 45; srt_tool.py lines 446-448; capcut_srt_extractor.py line
\* 766, where the call starts one process and has no loop
translate_models(p, primary_model) ==
    IF p = "srt_tool_app" THEN models_to_try
    ELSE IF p = "capcut_srt_extractor" THEN <<"gemini-2.5-flash">>
    ELSE IF primary_model # "gemini-2.5-pro" THEN <<primary_model, "gemini-2.5-pro">>
    ELSE <<primary_model>>

\* lines 502-504: the merge step is reached when the translation step of the
\* file returned True (otherwise the file is given up and the loop continues)
merge_reached(f) == f.outcome = "translated"

\* a source file is UTF-8 text with cues, UTF-8 text without any cue, or not
\* UTF-8 at all (open(...).read() raises in _split_single_srt)
SrtKinds == {"cues", "empty", "undecodable"}

\* tried: the models of the list the translation step of the file has come to
BatchFile(kind) == [srt |-> kind, outcome |-> "waiting", backup |-> FALSE, tried |-> 0]

\* gui.py lines 500, 502, 504 and srt_tool.py lines 823-825, 828-830,
\* 835-840: _backup_failed_srt(...); continue
backup_and_continue(files, i) ==
    [files EXCEPT ![i] = [@ EXCEPT !.outcome = "failed", !.backup = TRUE]]

\* capcut_srt_extractor.py lines 1065-1069, 1073-1077, 1085-1089: a message
\* is logged and the loop continues; the program has no backup
log_and_continue(files, i) ==
    [files EXCEPT ![i] = [@ EXCEPT !.outcome = "failed"]]

\* what the loop of program p does with a file whose step returned False
give_up(p, files, i) ==
    IF p = "capcut_srt_extractor"
    THEN log_and_continue(files, i)
    ELSE backup_and_continue(files, i)

InitBatch ==
    /\ batch \in {[i \in DOMAIN kinds |-> BatchFile(kinds[i])] :
                    kinds \in UNION {[1..n -> SrtKinds] : n \in 1..MaxBatchFiles}}
    /\ batch_pos = 1
    /\ worker = "running"
    /\ program \in Programs
    /\ model_name \in (IF program = "srt_tool" THEN AvailableModels ELSE {"none"})
    /\ IdleCodec
    /\ IdleValidator
    /\ IdlePipeline
    /\ IdleShifter /\ IdleBackup /\ IdleParser

\* lines 499-500: the split step of the current file
BatchSplit ==
    /\ worker = "running"
    /\ batch_pos <= Len(batch)
    /\ batch[batch_pos].outcome = "waiting"
    /\ IF batch[batch_pos].srt = "undecodable"
       THEN /\ batch' = give_up(program, batch, batch_pos)
            /\ batch_pos' = batch_pos + 1
       ELSE /\ batch' = [batch EXCEPT ![batch_pos] = [@ EXCEPT !.outcome = "split"]]
            /\ UNCHANGED batch_pos
    /\ UNCHANGED <<worker, program, model_name>>
    /\ UNCHANGED <<codecVars, validatorVars, pipelineVars, shifterVars, backupVars, parserVars>>

\* line 502 into _translate_single_file, up to its wait for the external
\* process (core.py lines 35-61): a sentence file without text is skipped
\* with True and no process; otherwise the process of the next model of the
\* list is started and the thread waits in communicate, or Popen raises.
\* FileNotFoundError makes the call return False; on another exception the
\* loop of the call goes on with the next model, and the call returns False
\* when there is none.
BatchTranslateStarts ==
    /\ worker = "running"
    /\ batch_pos <= Len(batch)
    /\ batch[batch_pos].outcome \in {"split", "translating"}
    /\ LET f == batch[batch_pos]
           models == translate_models(program, model_name)
       IN  IF f.outcome = "split" /\ f.srt = "empty"
           THEN /\ batch' = [batch EXCEPT ![batch_pos] = [@ EXCEPT !.outcome = "translated"]]
                /\ UNCHANGED <<batch_pos, worker>>
           ELSE \/ /\ batch' = [batch EXCEPT ![batch_pos] =
                                   [@ EXCEPT !.outcome = "translating", !.tried = f.tried + 1]]
                   /\ worker' = "blocked"
                   /\ UNCHANGED batch_pos
                \/ /\ batch' = give_up(program, [batch EXCEPT ![batch_pos] =
                                                   [@ EXCEPT !.tried = f.tried + 1]], batch_pos)
                   /\ batch_pos' = batch_pos + 1
                   /\ UNCHANGED worker
                \/ /\ f.tried + 1 < Len(models)
                   /\ batch' = [batch EXCEPT ![batch_pos] =
                                   [@ EXCEPT !.outcome = "translating", !.tried = f.tried + 1]]
                   /\ UNCHANGED <<batch_pos, worker>>
    /\ UNCHANGED <<program, model_name>>
    /\ UNCHANGED <<codecVars, validatorVars, pipelineVars, shifterVars, backupVars, parserVars>>

\* the wait of core.py line 61 is over: the process ended, communicate
\* returns or raises. An answer that is accepted is written to the sentence
\* file and the call returns True (lines 71-78); after anything else the loop
\* of the call goes on with the next model, or the call returns False when
\* there is none (lines 63-65, 79-94, 99-104) and the file is given up.
BatchTranslateEnds ==
    /\ worker = "blocked"
    /\ batch[batch_pos].outcome = "translating"
    /\ worker' = "running"
    /\ \E answer_accepted \in BOOLEAN :
          IF answer_accepted
          THEN /\ batch' = [batch EXCEPT ![batch_pos] = [@ EXCEPT !.outcome = "translated"]]
               /\ UNCHANGED batch_pos
          ELSE IF batch[batch_pos].tried < Len(translate_models(program, model_name))
          THEN UNCHANGED <<batch, batch_pos>>
          ELSE /\ batch' = give_up(program, batch, batch_pos)
               /\ batch_pos' = batch_pos + 1
    /\ UNCHANGED <<program, model_name>>
    /\ UNCHANGED <<codecVars, validatorVars, pipelineVars, shifterVars, backupVars, parserVars>>

\* lines 503-505: the merge step of the current file. A call with the wrong
\* number of arguments raises TypeError before the function body runs; the
\* loop has no handler and the exception ends the thread (lines 378-381).
BatchMerge ==
    /\ worker = "running"
    /\ batch_pos <= Len(batch)
    /\ merge_reached(batch[batch_pos])
    /\ IF merge_args_passed(program) # merge_params(program)
       THEN /\ worker' = "dead"
            /\ UNCHANGED <<batch, batch_pos>>
       ELSE /\ \E merged \in BOOLEAN :
                  batch' = IF merged
                           THEN [batch EXCEPT ![batch_pos] = [@ EXCEPT !.outcome = "merged"]]
                           ELSE give_up(program, batch, batch_pos)
            /\ batch_pos' = batch_pos + 1
            /\ UNCHANGED worker
    /\ UNCHANGED <<program, model_name>>
    /\ UNCHANGED <<codecVars, validatorVars, pipelineVars, shifterVars, backupVars, parserVars>>

\* lines 506-509: the loop is over
BatchFinish ==
    /\ worker = "running"
    /\ batch_pos > Len(batch)
    /\ worker' = "done"
    /\ UNCHANGED <<batch, batch_pos, program, model_name>>
    /\ UNCHANGED <<codecVars, validatorVars, pipelineVars, shifterVars, backupVars, parserVars>>

NextBatch ==
    \/ BatchSplit
    \/ BatchTranslateStarts
    \/ BatchTranslateEnds
    \/ BatchMerge
    \/ BatchFinish

\* the steps the workflow thread takes on its own; BatchTranslateEnds is
\* taken when the external process ends
BatchThreadStep == BatchSplit \/ BatchTranslateStarts \/ BatchMerge \/ BatchFinish

\* the workflow thread is scheduled as long as it has a step of its own to
\* take; nothing makes the external process end (communicate has no timeout)
SpecBatch == InitBatch /\ [][NextBatch]_vars /\ WF_batchVars(BatchThreadStep)

\* C17: in the one-click workflow every file of the batch reaches a terminal
\* outcome in the end: merged, or failed with its source handed to backup;
\* no failure or exception in a step of one file keeps the later files from
\* being processed.
C17_BatchContinuation ==
    <>(\A i \in DOMAIN batch :
          \/ batch[i].outcome = "merged"
          \/ batch[i].outcome = "failed" /\ batch[i].backup)

(***************************************************************************)
(* core._backup_failed_srt called again and again for one file name         *)
(***************************************************************************)
MaxBackupBytes == 2

BackupBytes == {"a", "\r", NL}

\* what the source file can hold: every byte string up to MaxBackupBytes
SourceContents == UNION {[1..n -> BackupBytes] : n \in 0..MaxBackupBytes}

InitBackup ==
    /\ srt_path \in {NoFile} \cup {File(b) : b \in SourceContents}
    /\ failed_srt = NoFile
    /\ first_backup = NoFile
    /\ IdleCodec
    /\ IdleValidator
    /\ IdlePipeline
    /\ IdleShifter /\ IdleBatch /\ IdleParser

\* core.py lines 185-202: one call for the source file
BackupFailedSrt ==
    /\ failed_srt' = _backup_failed_srt(srt_path, failed_srt)
    /\ first_backup' = first_copy(first_backup, srt_path, failed_srt, failed_srt')
    /\ UNCHANGED srt_path
    /\ UNCHANGED <<codecVars, validatorVars, pipelineVars, shifterVars, batchVars, parserVars>>

\* between two calls the user or another tool rewrites the source file
WriteSource ==
    /\ \E b \in SourceContents : srt_path' = File(b)
    /\ UNCHANGED <<failed_srt, first_backup>>
    /\ UNCHANGED <<codecVars, validatorVars, pipelineVars, shifterVars, batchVars, parserVars>>

\* between two calls the source file is removed
DeleteSource ==
    /\ srt_path.exists
    /\ srt_path' = NoFile
    /\ UNCHANGED <<failed_srt, first_backup>>
    /\ UNCHANGED <<codecVars, validatorVars, pipelineVars, shifterVars, batchVars, parserVars>>

NextBackup == BackupFailedSrt \/ WriteSource \/ DeleteSource

SpecBackup == InitBackup /\ [][NextBackup]_vars

\* C18: after any sequence of _backup_failed_srt calls for one file name the
\* quarantine copy holds the bytes the source had at the first call that
\* could copy it; no later call overwrites or alters the copy, whatever the
\* source holds by then, and a call never changes the source.
C18_IdempotentQuarantine ==
    /\ [](failed_srt.exists <=> first_backup.exists)
    /\ [](failed_srt.exists => failed_srt = first_backup)
    /\ [][failed_srt.exists => failed_srt' = failed_srt]_vars
    /\ [][failed_srt' # failed_srt => srt_path' = srt_path /\ failed_srt' = File(srt_path.bytes)]_vars

\* the copy was made from a source that held a carriage return and a newline,
\* and the source has been rewritten since: a further call finds the two differ
C18_Witness ==
    /\ failed_srt = File(<<"\r", NL>>)
    /\ srt_path = File(<<"a">>)
    /\ first_backup = failed_srt

\* C19: for a pair with two or more text lines whose time range is malformed
\* (not two timestamps around " --> ", or a timestamp that cannot be parsed)
\* the Merger emits exactly one block: the next sequential index, the time
\* line as it stands and all text lines joined by newline; the merge succeeds.
C19_MergeFallback ==
    pc = "merged"
    => \A p \in ReadablePairs :
          LET lines == NonBlankLines(IF SentenceLines(p)[1] = TimeLines(p)[1]
                                     THEN Tail(SentenceLines(p)) ELSE SentenceLines(p))
              bs == BlocksOfPair(srt_output, p)
          IN  (Len(lines) >= 2 /\ ~WellFormedRange(TimeLines(p)[2]))
              => /\ Len(bs) = 1
                 /\ bs[1].time = TimeLines(p)[2]
                 /\ bs[1].text = join(<<NL>>, lines)
                 /\ \A i \in 1..Len(srt_output) : srt_output[i].number = i

\* the pattern of a timestamp: two digits, colon, two digits, colon, two
\* digits, a comma or a dot, three digits, and nothing else
MatchesPattern(s) == Len(s) = 12 /\ TimestampAt(s, 1)

\* C21: for a text that deviates from the pattern (a fraction of one or two
\* digits, a one-digit hour, text after the timestamp, ...) shift_time_string
\* returns the text unchanged, for every offset, and does not raise.
C21_DeviantPassThrough ==
    (shifted.status # "pending" /\ ~MatchesPattern(time_str))
    => (shifted.status = "returned" /\ shifted.value = time_str)

\* the lines of chunk k of a returned or running parse, and those of them
\* the time-range pattern is found in
LinesOfChunk(c, k) == split(strip(calls[c].content_chunks[k]), <<NL>>)

MatchingLines(c, k) ==
    {i \in 1..Len(LinesOfChunk(c, k)) : time_pattern_search(LinesOfChunk(c, k)[i])}

ParsedChunks(c) == {k \in 1..Len(calls[c].content_chunks) : MatchingLines(c, k) # {}}

Least(S) == CHOOSE i \in S : \A j \in S : i <= j

\* C22: a parse returns one block per chunk that has a line matching the
\* time-range pattern, in file order; the first matching line is the time
\* range, the lines before it are the candidate index and the lines after it
\* the text; a chunk without a matching line gives no block and does not
\* advance the fallback counter; an index and a time line alone give a block
\* with empty text.
C22_ParserAnchoring ==
    \A c \in DOMAIN calls :
        /\ calls[c].status = "running" => calls[c].block_counter = 1 + Len(calls[c].blocks)
        /\ calls[c].status = "returned" =>
              LET parsed == ParsedChunks(c)
              IN  /\ Len(calls[c].blocks) = Cardinality(parsed)
                  /\ calls[c].block_counter = 1 + Cardinality(parsed)
                  /\ \A k \in parsed :
                        LET lines == LinesOfChunk(c, k)
                            t == Least(MatchingLines(c, k))
                            position == Cardinality({j \in parsed : j <= k})
                            candidate == strip(join(<<NL>>, SubSeq(lines, 1, t - 1)))
                            b == calls[c].blocks[position]
                        IN  /\ b.time = strip(lines[t])
                            /\ b.text = strip(join(<<NL>>, SubSeq(lines, t + 1, Len(lines))))
                            /\ b.number = IF isdigit(candidate) THEN candidate ELSE str(position)
                            /\ t = Len(lines) => b.text = <<>>

\* a returned parse of six chunks, the fourth without a time line: five
\* blocks; the third has the index 5 and no text; the fourth, from the chunk
\* with two time lines, has the first of them as its time range, the second
\* in its text, and the fallback number 4; the last has a time line whose
\* arrow stands between a form feed and a no-break space
C22_Witness ==
    \E c \in ReturnedCalls :
        /\ Len(calls[c].content_chunks) = 6
        /\ ParsedChunks(c) = {1, 2, 3, 5, 6}
        /\ Cardinality(MatchingLines(c, 5)) = 2
        /\ Len(calls[c].blocks) = 5
        /\ calls[c].blocks[5].time = TimeLine(0, 5, 0, 0, 6, 0, ",", <<"\f", "-", "-", ">", " ">>)
        /\ calls[c].blocks[3] = [number |-> <<"5">>, time |-> ParseTimeLine, text |-> <<>>]
        /\ calls[c].blocks[4].number = <<"4">>
        /\ calls[c].blocks[4].time = ParseTimeLine
        /\ calls[c].blocks[4].text = TimeLine(0, 3, 0, 0, 4, 0, ".", BareArrow) \o <<NL, "c">>

\* the blocks the Merger emitted for the pair at position k
EmittedFor(k) ==
    LET OfPair(e) == e.pair = k
    IN  SelectSeq(srt_output, OfPair)

\* the time range b of a sub-block lies inside the well-formed range
InsideRange(b, range) ==
    /\ WellFormedRange(b)
    /\ Millis(RangeStart(range)) <= Millis(RangeStart(b))
    /\ Millis(RangeEnd(b)) <= Millis(RangeEnd(range))

\* the time range b of a sub-block is a well-formed range that starts at most
\* one millisecond before the well-formed range and ends within it
WithinRangeToMillisecond(b, range) ==
    /\ WellFormedRange(b)
    /\ Millis(RangeStart(range)) - 1 <= Millis(RangeStart(b))
    /\ Millis(RangeStart(b)) <= Millis(RangeEnd(b))
    /\ Millis(RangeEnd(b)) <= Millis(RangeEnd(range))

\* the blocks emitted are those of the blocks with text, in order, numbered
\* 1, 2, ..., and the output file is their text
DropsExactlyEmptyTexts(blocks) ==
    /\ sentence_file = split_sentence
    /\ output_srt = output_text(srt_output)
    /\ {srt_output[i].pair : i \in 1..Len(srt_output)}
          = {k \in 1..Len(blocks) : blocks[k].text # <<>>}
    /\ \A i \in 1..Len(srt_output) :
          /\ srt_output[i].number = i
          /\ i > 1 => srt_output[i - 1].pair <= srt_output[i].pair

          /\ blocks[3].text = <<"x">>
          /\ blocks[3].time # blocks[2].time
          /\ Len(srt_output) = 3
          /\ srt_output[1].pair = 2 /\ srt_output[2].pair = 2
          /\ srt_output[1].time # blocks[2].time
          /\ srt_output[3] = Emitted(3, blocks[3].time, <<"x">>, 3)

\* the steps a file can take in the one-click workflow, in their order
StepOrder(before, after) ==
    \/ before = "waiting" /\ after \in {"split", "failed"}
    \/ before = "split" /\ after \in {"translated", "translating", "failed"}
    \/ before = "translating" /\ after \in {"translating", "translated", "failed"}
    \/ before = "translated" /\ after \in {"merged", "failed"}

\* C24: in the one-click workflow the steps of a file run in the order split,
\* translate, merge; the merge step of a file runs, and its output is
\* written, only after its translation step returned success; a file whose
\* split or translation failed is backed up and never merged, and Failed is
\* terminal for the file.
C24_PerFileOrder ==
    /\ [](\A i \in DOMAIN batch :
            /\ batch[i].outcome = "failed" => batch[i].backup
            /\ i < batch_pos => batch[i].outcome \in {"merged", "failed"}
            /\ i > batch_pos => batch[i].outcome = "waiting")
    /\ [][\A i \in DOMAIN batch :
            /\ batch'[i] # batch[i] => i = batch_pos /\ StepOrder(batch[i].outcome, batch'[i].outcome)
            /\ batch'[i].outcome = "merged" => batch[i].outcome \in {"translated", "merged"}
            /\ batch[i].outcome = "failed" => batch'[i] = batch[i]
            /\ worker' = "dead" => batch[batch_pos].outcome = "translated"]_vars

\* the banner-filtered text of the last attempt and the verdict of both checks
LastAnswer == translated_content_of(last_stdout.text)

PassesBothChecks(text) ==
    /\ _validate_translation_format(text).valid
    /\ _validate_sequential_numbering(text).valid

\* what C25 says of one step of a call, but for the text the file gets:
\* written(answer) is the text the claim expects in the sentence file. The
\* process is started for the model at position attempt + 1 of the list, and
\* the end of the wait for it closes that attempt.
TranslateStepFrame(written(_)) ==
    /\ attempt' \in {attempt, attempt + 1} /\ attempt' <= Len(models_to_try)
    /\ pc \in {"translated", "failed"}
          => UNCHANGED <<pc, attempt, last_stdout, sentence_file>>
    /\ (pc # "communicating" /\ pc' = "communicating")
          => (attempt' = attempt /\ attempt < Len(models_to_try))
    /\ (pc = "communicating" /\ pc' # "communicating") => attempt' = attempt + 1
    /\ (last_stdout'.kind = "stdout" /\ attempt' = attempt + 1)
          => (pc' = "translated") = PassesBothChecks(translated_content_of(last_stdout'.text))
    /\ IF pc' = "translated" /\ attempt' = attempt + 1
       THEN sentence_file' = written(translated_content_of(last_stdout'.text))
       ELSE sentence_file' = sentence_file

Verbatim(text) == text

\* C25: _translate_single_file starts the external process at most once per
\* model of models_to_try, in list order, and stops at the first attempt
\* whose banner-filtered output passes both checks; the sentence file is
\* overwritten only then, with exactly that validated text; on every other
\* path (empty input, failed attempt, final failure) it keeps its content.
C25_AttemptsAndFrame == [][TranslateStepFrame(Verbatim)]_vars

\* C25 (as the code has it): the same, but the text written is the validated
\* text without its leading and trailing whitespace.
C25_AttemptsAndFrameStripped == [][TranslateStepFrame(strip)]_vars

\* the first attempt was rejected, the second answered the stream behind the
\* banner and an empty line: the validated text starts with a line break and
\* the sentence file holds it without that line break
C25_Witness ==
    /\ pc = "translated" /\ attempt = 2
    /\ last_stdout.kind = "stdout"
    /\ PassesBothChecks(LastAnswer)
    /\ LastAnswer # <<>> /\ Head(LastAnswer) = NL
    /\ sentence_file = strip(LastAnswer)
    /\ sentence_file # LastAnswer

\* C26: for every block sequence the parser returns, the sentence stream the
\* Splitter writes passes the format check, so an external process that
\* answers the stream unchanged is not rejected, also when a text line of a
\* cue consists of digits only.
C26_IdentityTranslationAccepted ==
    pc = "split" =>
        /\ _validate_translation_format(split_sentence).valid
        /\ accepted(translated_content_of(split_sentence))

\* the start and end texts of a time line as line 446 cuts it, on " --> "
ArrowParts(time_line) == split(time_line, SpacedArrow)

\* the time line of the text the Shifter built for block i
ShiftedTimeLine(i) == split(new_srt_content[i], <<NL>>)[2]

\* C27: the bulk Shifter (_execute_adv_shift of gui.py and of srt_tool.py)
\* processes every block the parser returns without raising (offsets that
\* leave the range of dates aside), and in a block it shifts it changes both
\* the start and the end or neither of them: it never shifts one endpoint
\* and passes the other through.
C27_ShifterTotalAndConsistent ==
    (/\ pc \in {"shifted", "shift_failed"}
     /\ decodes(srt)
     /\ offset_seconds # timedelta_days(-693596))
    => /\ pc = "shifted"
       /\ LET blocks == parse_srt_content(read_text(srt))
          IN  \A i \in 1..Len(blocks) :
                 LET before == ArrowParts(blocks[i].time)
                     after == ArrowParts(ShiftedTimeLine(i))
                 IN  /\ Len(before) = 2 /\ Len(after) = 2
                     /\ (after[1] = before[1]) = (after[2] = before[2])

\* C28: for an SRT text with two or more cues, the text the bulk Shifter of
\* the srt_tool_app GUI wrote, parsed again, has as many blocks as the parse
\* of the input, with the same indices and the same texts.
C28_ShiftedOutputReparses ==
    (/\ pc = "shifted"
     /\ program = "srt_tool_app"
     /\ Len(parse_srt_content(read_text(srt))) >= 2)
    => LET blocks == parse_srt_content(read_text(srt))
           again == parse_srt_content(read_text(shifted_file.bytes))
       IN  /\ Len(again) = Len(blocks)
           /\ \A i \in 1..Len(blocks) :
                 again[i].number = blocks[i].number /\ again[i].text = blocks[i].text

\* C29: for a well-formed timestamp t and an offset >= 0, the instant of
\* shift_time_string(t, offset) is t + offset cut to milliseconds, hence not
\* earlier than t, also when t + offset reaches or passes 24 hours.
C29_ForwardShiftDoesNotWrap ==
    (/\ shifted.status # "pending"
     /\ WellFormedTimestamp(time_str)
     /\ InstantSeconds(time_str) < 24 * 3600
     /\ offset_seconds.days \in 0..1)
    => /\ shifted = Returned(TimestampOfMillis(ShiftedMillis(time_str, offset_seconds),
                                               SeparatorOf(time_str)))
       /\ Millis(shifted.value) >= Millis(time_str)

\* the texts the claim expects for a time chunk and the sentence chunk at the
\* same position: nothing for a pair that is skipped, else the non-blank
\* lines of the sentence chunk, without the first line when it is the index
\* of the time chunk; one text per line, or all lines in one text when the
\* time line is not cut in two by " --> "
ExpectedTexts(t_chunk, s_chunk) ==
    LET t_lines == split(strip(t_chunk), <<NL>>)
        s_lines == split(strip(s_chunk), <<NL>>)
        lines == NonBlankLines(IF isdigit(s_lines[1]) /\ s_lines[1] = t_lines[1]
                               THEN Tail(s_lines) ELSE s_lines)
    IN  IF t_chunk = <<>> \/ s_chunk = <<>> \/ Len(t_lines) < 2 THEN <<>>
        ELSE IF Len(lines) >= 2 /\ Len(ArrowParts(t_lines[2])) # 2
        THEN <<join(<<NL>>, lines)>>
        ELSE lines

\* the number of blocks expected for the pairs before position p
RECURSIVE EmittedBefore(_, _)
EmittedBefore(texts, p) == IF p <= 1 THEN 0 ELSE EmittedBefore(texts, p - 1) + Len(texts[p - 1])

\* C30: the Merger pairs the streams by position alone: the blocks it emits
\* are, for position 1, 2, ... up to the shorter chunk count, the text lines
\* of the sentence chunk at that position, each with the time line of the
\* time chunk at the same position or a part of its range; the index in a
\* sentence chunk selects nothing, a leading numeric line that differs from
\* the paired index is text, and chunks beyond the shorter count are left out
\* while the merge still succeeds.
C30_PositionalPairing ==
    pc = "merged"
    => LET time_chunks == stream_chunks(time_file)
           sentence_chunks == stream_chunks(sentence_file)
           pairs == IF Len(time_chunks) < Len(sentence_chunks)
                    THEN Len(time_chunks) ELSE Len(sentence_chunks)
           texts == [p \in 1..pairs |-> ExpectedTexts(time_chunks[p], sentence_chunks[p])]
       IN  /\ Len(srt_output) = EmittedBefore(texts, pairs + 1)
           /\ output_srt = output_text(srt_output)
           /\ \A p \in 1..pairs : \A j \in 1..Len(texts[p]) :
                 LET b == srt_output[EmittedBefore(texts, p) + j]
                     range == split(strip(time_chunks[p]), <<NL>>)[2]
                 IN  /\ b.text = texts[p][j]
                     /\ \/ b.time = range
                        \/ Len(texts[p]) >= 2 /\ WellFormedRange(range) /\ InsideRange(b.time, range)
                        \/ Len(texts[p]) >= 2 /\ ~WellFormedRange(range)

\* the answer dropped the first of two cues: the sentence stream has one chunk
\* and the time stream two; the chunk's index 3 differs from the index 2 of
\* the first time chunk, so it was emitted as text with the first time line,
\* and the second time chunk was left out
C30_Witness ==
    /\ pc = "merged"
    /\ Len(stream_chunks(time_file)) = 2
    /\ Len(stream_chunks(sentence_file)) = 1
    /\ TimeLines(1)[1] = <<"2">> /\ SentenceLines(1)[1] = <<"3">>
    /\ TimeLines(1)[2] # TimeLines(2)[2]
    /\ Len(srt_output) = 2
    /\ srt_output[1].text = <<"3">> /\ srt_output[1].number = 1
    /\ InsideRange(srt_output[1].time, TimeLines(1)[2])
    /\ InsideRange(srt_output[2].time, TimeLines(1)[2])

====
